---- MODULE Spec2Model ----
(***************************************************************************)
(* Jennah worker fleet: the job row of one (tenant, job) key in the store, *)
(* the provider-side job, and on every worker the poller map, the poller   *)
(* goroutines, the lease reconciler and the RPC handlers.                  *)
(*                                                                         *)
(* Time is kept relative to "now": a timestamp column holds the signed     *)
(* distance to now (lease-expires-at) or the age (last-heartbeat-at), and  *)
(* the Tick action moves every one of them by one unit.  All workers read  *)
(* the same clock.                                                         *)
(***************************************************************************)
EXTENDS Integers, FiniteSets, Sequences, TLC

\* ---------------------------------------------------------------- bounds
\* WORKER_LEASE_TTL_SECONDS and WORKER_CLAIM_INTERVAL_SECONDS are read from
\* the environment (serve.go:95-98, defaults 30 and 5); one time unit of the
\* model is one claim interval and the TTL is scaled with it.
LeaseTTL == 2
ClaimInterval == 1
\* maxFailedAttempts is 10 in startJobPoller (pollers.go:44); scaled.
MaxFailedAttempts == 2
\* poller goroutines that can exist at once on one worker for the job
MaxPollers == 2
\* worker process stops (crash or kill) in one behaviour
MaxCrashes == 1

\* ---------------------------------------------------------------- values
Workers == {"W1", "W2"}
Null == "null"

JobStatusPending == "PENDING"
JobStatusScheduled == "SCHEDULED"
JobStatusRunning == "RUNNING"
JobStatusCompleted == "COMPLETED"
JobStatusFailed == "FAILED"
JobStatusCancelled == "CANCELLED"
JobStatusUnknown == "UNKNOWN"

CanonicalStatuses ==
  {JobStatusPending, JobStatusScheduled, JobStatusRunning,
   JobStatusCompleted, JobStatusFailed, JobStatusCancelled}

CloudPath == "p"

VARIABLES
  row,      \* the Jobs row of the key, or the absent row
  log,      \* JobStateTransitions of the key: set of <<from, to>>
  prov,     \* the provider's job behind CloudPath
  alive,    \* worker -> process is running
  pollers,  \* worker -> s.pollers[key]: slot of the registered poller, 0 if none
  pol,      \* worker -> slot -> JobPoller goroutine
  timer,    \* worker -> time units until the reconciler's next tick
  h,        \* the RPC handler in flight
  last,     \* the lease calls in progress and what the last one returned
  crashes,  \* worker stops so far
  orphan,   \* time the job has been active with a stopped owner and a survivor
  tenants,  \* the Tenants relation: external identities that have a row
  jobs,     \* the Jobs relation over all tenants: set of [tenant, id, status]
  ring,     \* the router's ring: routing key -> worker
  rpc,      \* the gateway or direct call answered last, with its outcome
  srv,      \* worker -> stage of the process between serving and exit
  fn        \* the call of a pure function: its inputs and its result

\* the variables of the gateway tier, of the shutdown and of the function
\* calls, which the steps of the fleet on one key leave alone
rest == <<tenants, jobs, ring, rpc, srv, fn>>

vars ==
  <<row, log, prov, alive, pollers, pol, timer, h, last, crashes, orphan,
    tenants, jobs, ring, rpc, srv, fn>>

Slots == 1..MaxPollers

\* isTerminalStatus (pollers.go:270)
isTerminalStatus(status) ==
  \/ status = JobStatusCompleted
  \/ status = JobStatusFailed
  \/ status = JobStatusCancelled

\* isCancellableStatus that lets a completed job through
cancellableOrCompleted(status) ==
  \/ status = JobStatusPending
  \/ status = JobStatusScheduled
  \/ status = JobStatusRunning
  \/ status = JobStatusCompleted

\* isCancellableStatus (pollers.go:277)
isCancellableStatus(status) ==
  \/ status = JobStatusPending
  \/ status = JobStatusScheduled
  \/ status = JobStatusRunning

\* a status mapping that hands the provider's value through
mapAsIs(status) == status

\* mapBatchStatusToDBStatus (pollers.go:250): every status outside the six
\* cases, UNKNOWN included, takes the default branch.
mapBatchStatusToDBStatus(status) ==
  CASE status = JobStatusPending -> JobStatusPending
    [] status = JobStatusScheduled -> JobStatusScheduled
    [] status = JobStatusRunning -> JobStatusRunning
    [] status = JobStatusCompleted -> JobStatusCompleted
    [] status = JobStatusFailed -> JobStatusFailed
    [] status = JobStatusCancelled -> JobStatusCancelled
    [] OTHER -> JobStatusPending

\* ---------------------------------------------------------------- the row
\* a NULL timestamp is the empty tuple, a valid one is <<distance to now>>
NullTime == <<>>

NoRow ==
  [present |-> FALSE, status |-> Null, path |-> Null, owner |-> Null,
   preferred |-> Null, lease |-> NullTime, hb |-> NullTime, err |-> FALSE]

\* one time unit passes over lease-expires-at; every value below now reads
\* the same to Before(now), so the distance stops at -1
AgeLease(l) ==
  IF l = NullTime THEN NullTime
  ELSE IF l[1] <= -1 THEN <<-1>> ELSE <<l[1] - 1>>

\* one time unit passes over last-heartbeat-at (an age, never read by code)
AgeBeat(b) ==
  IF b = NullTime THEN NullTime
  ELSE IF b[1] >= LeaseTTL + 1 THEN <<LeaseTTL + 1>> ELSE <<b[1] + 1>>

\* an insert that replaces the row the key has
InsertReplaces(r) == FALSE

\* spanner.Insert of InsertJobFull (jobs.go:25-26) fails on a key that has a
\* row
InsertFails(r) == r.present

\* InsertJobFull as SubmitJob calls it (part_005:496-515)
InsertJobFull(w) ==
  [present |-> TRUE, status |-> JobStatusPending, path |-> Null, owner |-> w,
   preferred |-> w, lease |-> <<LeaseTTL>>, hb |-> <<0>>, err |-> FALSE]

\* UpdateJobStatus that writes the whole row, the cloud path unset
UpdateDroppingPath(r, status) ==
  IF r.present THEN [r EXCEPT !.status = status, !.path = Null] ELSE r

\* UpdateJobStatus (jobs.go:138): spanner.Update fails on a missing row
UpdateJobStatus(r, status) ==
  IF r.present THEN [r EXCEPT !.status = status] ELSE r

\* UpdateJobStatusAndGcpBatchJobName (jobs.go:152)
UpdateJobStatusAndGcpBatchJobName(r, status, path) ==
  IF r.present THEN [r EXCEPT !.status = status, !.path = path] ELSE r

\* FailJob that leaves ErrorMessage unset
FailWithoutMessage(r) ==
  IF r.present THEN [r EXCEPT !.status = JobStatusFailed] ELSE r

\* FailJob (jobs.go:181)
FailJob(r) ==
  IF r.present THEN [r EXCEPT !.status = JobStatusFailed, !.err = TRUE] ELSE r

\* ListActiveJobs (jobs.go:252) restricted to the key
ListActiveJobs(r) ==
  /\ r.present
  /\ r.status \in {JobStatusPending, JobStatusScheduled, JobStatusRunning}
  /\ r.path # Null

\* TryClaimOrRenewJobLease with the preferred worker given no precedence
ClaimWithoutTakeover(r, workerID, e) ==
  IF ~r.present
  THEN [row |-> r, owned |-> FALSE, err |-> TRUE]
  ELSE IF isTerminalStatus(r.status)
  THEN [row |-> r, owned |-> FALSE, err |-> FALSE]
  ELSE
    LET isOwner == r.owner # Null /\ r.owner = workerID
        leaseExpired == r.lease = NullTime \/ r.lease[1] < 0
        isUnowned == r.owner = Null \/ r.owner = ""
    IN IF ~(isOwner \/ leaseExpired \/ isUnowned)
       THEN [row |-> r, owned |-> FALSE, err |-> FALSE]
       ELSE [row |-> [r EXCEPT !.owner = workerID, !.lease = <<e>>, !.hb = <<0>>],
             owned |-> TRUE, err |-> FALSE]

\* TryClaimOrRenewJobLease where an expired lease of another worker cannot
\* be claimed
ClaimWithoutExpiry(r, workerID, e) ==
  IF ~r.present
  THEN [row |-> r, owned |-> FALSE, err |-> TRUE]
  ELSE IF isTerminalStatus(r.status)
  THEN [row |-> r, owned |-> FALSE, err |-> FALSE]
  ELSE
    LET isOwner == r.owner # Null /\ r.owner = workerID
        isUnowned == r.owner = Null \/ r.owner = ""
        preferredTakeover ==
          r.preferred # Null /\ r.preferred = workerID /\ ~isOwner
    IN IF ~(isOwner \/ isUnowned \/ preferredTakeover)
       THEN [row |-> r, owned |-> FALSE, err |-> FALSE]
       ELSE [row |-> [r EXCEPT !.owner = workerID, !.lease = <<e>>, !.hb = <<0>>],
             owned |-> TRUE, err |-> FALSE]

\* TryClaimOrRenewJobLease that stamps the heartbeat of a row it may not
\* claim
ClaimStampingRefused(r, workerID, e) ==
  IF ~r.present
  THEN [row |-> r, owned |-> FALSE, err |-> TRUE]
  ELSE IF isTerminalStatus(r.status)
  THEN [row |-> r, owned |-> FALSE, err |-> FALSE]
  ELSE
    LET isOwner == r.owner # Null /\ r.owner = workerID
        leaseExpired == r.lease = NullTime \/ r.lease[1] < 0
        isUnowned == r.owner = Null \/ r.owner = ""
        preferredTakeover ==
          r.preferred # Null /\ r.preferred = workerID /\ ~isOwner
    IN IF ~(isOwner \/ leaseExpired \/ isUnowned \/ preferredTakeover)
       THEN [row |-> [r EXCEPT !.hb = <<0>>], owned |-> FALSE, err |-> FALSE]
       ELSE [row |-> [r EXCEPT !.owner = workerID, !.lease = <<e>>, !.hb = <<0>>],
             owned |-> TRUE, err |-> FALSE]

\* TryClaimOrRenewJobLease where the owner's call keeps the expiry the row
\* has
ClaimWithoutRenewal(r, workerID, e) ==
  IF ~r.present
  THEN [row |-> r, owned |-> FALSE, err |-> TRUE]
  ELSE IF isTerminalStatus(r.status)
  THEN [row |-> r, owned |-> FALSE, err |-> FALSE]
  ELSE
    LET isOwner == r.owner # Null /\ r.owner = workerID
        leaseExpired == r.lease = NullTime \/ r.lease[1] < 0
        isUnowned == r.owner = Null \/ r.owner = ""
        preferredTakeover ==
          r.preferred # Null /\ r.preferred = workerID /\ ~isOwner
    IN IF ~(isOwner \/ leaseExpired \/ isUnowned \/ preferredTakeover)
       THEN [row |-> r, owned |-> FALSE, err |-> FALSE]
       ELSE IF isOwner /\ ~leaseExpired
       THEN [row |-> [r EXCEPT !.hb = <<0>>], owned |-> TRUE, err |-> FALSE]
       ELSE [row |-> [r EXCEPT !.owner = workerID, !.lease = <<e>>, !.hb = <<0>>],
             owned |-> TRUE, err |-> FALSE]

\* a lease call that does not look at the status
ClaimTerminal(r, workerID, e) ==
  IF ~r.present
  THEN [row |-> r, owned |-> FALSE, err |-> TRUE]
  ELSE
    LET isOwner == r.owner # Null /\ r.owner = workerID
        leaseExpired == r.lease = NullTime \/ r.lease[1] < 0
        isUnowned == r.owner = Null \/ r.owner = ""
        preferredTakeover ==
          r.preferred # Null /\ r.preferred = workerID /\ ~isOwner
        canClaim == isOwner \/ leaseExpired \/ isUnowned \/ preferredTakeover
    IN IF ~canClaim
       THEN [row |-> r, owned |-> FALSE, err |-> FALSE]
       ELSE [row |-> [r EXCEPT !.owner = workerID, !.lease = <<e>>, !.hb = <<0>>],
             owned |-> TRUE, err |-> FALSE]

\* TryClaimOrRenewJobLease (jobs.go:291): one read-write transaction.  e is
\* leaseUntil as its distance to now.  The result is the row after the
\* transaction, claimed, and whether the call returned an error.
TryClaimOrRenewJobLease(r, workerID, e) ==
  IF ~r.present
  THEN [row |-> r, owned |-> FALSE, err |-> TRUE]
  ELSE IF r.status = JobStatusCompleted \/ r.status = JobStatusFailed
          \/ r.status = JobStatusCancelled
  THEN [row |-> r, owned |-> FALSE, err |-> FALSE]
  ELSE
    LET isOwner == r.owner # Null /\ r.owner = workerID
        leaseExpired == r.lease = NullTime \/ r.lease[1] < 0
        isUnowned == r.owner = Null \/ r.owner = ""
        preferredTakeover ==
          r.preferred # Null /\ r.preferred = workerID /\ ~isOwner
        canClaim == isOwner \/ leaseExpired \/ isUnowned \/ preferredTakeover
    IN IF ~canClaim
       THEN [row |-> r, owned |-> FALSE, err |-> FALSE]
       ELSE [row |-> [r EXCEPT !.owner = workerID, !.lease = <<e>>, !.hb = <<0>>],
             owned |-> TRUE, err |-> FALSE]

\* RecordStateTransition: appends one JobStateTransitions row, interleaved
\* in the Jobs row it belongs to
RecordStateTransition(r, l, from, to) ==
  IF r.present THEN l \cup {<<from, to>>} ELSE l

\* ---------------------------------------------------------------- workers
\* a JobPoller goroutine: where it is in poll(), poller.currentStatus,
\* oldStatus of the change being written, failedAttempts, done closed
FreePoller ==
  [pc |-> "free", cur |-> Null, old |-> Null, fails |-> 0, done |-> FALSE]

NewPoller(initialStatus) ==
  [pc |-> "select", cur |-> initialStatus, old |-> Null, fails |-> 0,
   done |-> FALSE]

NoHandler == [kind |-> "none", w |-> Null, pc |-> Null, seen |-> Null]

\* a call of TryClaimOrRenewJobLease in progress: where it is, leaseUntil,
\* the variable claimed (jobs.go:292), hit when another transaction's write
\* reached the row after this one read it, locked when the call began on a
\* row another worker held
IdleTxn ==
  [pc |-> "idle", e |-> 0, claimed |-> FALSE, hit |-> FALSE, locked |-> FALSE]

\* what the last call returned, with the row its transaction read and the
\* workers whose calls were in progress when it returned
NoReturn ==
  [w |-> Null, e |-> 0, pre |-> NoRow, owned |-> FALSE, err |-> FALSE,
   open |-> {}]

NoCall == [txn |-> [w \in Workers |-> IdleTxn], ret |-> NoReturn]

FreeSlots(w) == {s \in Slots : pol[w][s].pc = "free"}

Running(w) == {s \in Slots : pol[w][s].pc # "free"}

Min(a, b) == IF a < b THEN a ELSE b

\* the job is active with a cloud path, its owner's process is stopped and
\* another worker is running
Orphaned(r, al) ==
  /\ ListActiveJobs(r)
  /\ r.owner \in Workers
  /\ ~al[r.owner]
  /\ \E w \in Workers : al[w]

\* bookkeeping of orphan by every step: ticked when the step is Tick, fault
\* when a store call of a reconciler scan failed in the step
Track(ticked, fault) ==
  orphan' =
    IF Orphaned(row', alive')
    THEN [age |-> IF ticked
                  THEN Min(orphan.age + 1, LeaseTTL + ClaimInterval + 1)
                  ELSE orphan.age,
          fault |-> orphan.fault \/ fault]
    ELSE [age |-> 0, fault |-> FALSE]

\* startJobPoller (pollers.go:33): nothing when the key is registered,
\* otherwise a new goroutine in the lowest free slot
startJobPoller(w, initialStatus) ==
  IF pollers[w] # 0
  THEN UNCHANGED <<pollers, pol>>
  ELSE /\ FreeSlots(w) # {}
       /\ LET s == CHOOSE x \in FreeSlots(w) : \A y \in FreeSlots(w) : x <= y
          IN /\ pollers' = [pollers EXCEPT ![w] = s]
             /\ pol' = [pol EXCEPT ![w][s] = NewPoller(initialStatus)]

\* a goroutine that returns and leaves its key in the map
returnRegistered(w, s) ==
  /\ pol' = [pol EXCEPT ![w][s] = FreePoller]
  /\ UNCHANGED pollers

\* a goroutine that goes on polling where poll() returns
keepPolling(w, s) ==
  /\ pol' = [pol EXCEPT ![w][s].pc = "select"]
  /\ UNCHANGED pollers

\* a goroutine that goes on to the provider where poll() returns
goOnToProvider(w, s) ==
  /\ pol' = [pol EXCEPT ![w][s].pc = "renewed"]
  /\ UNCHANGED pollers

\* unregisterPoller (pollers.go:163), deferred by poll(): the goroutine in
\* slot s returns and the key is deleted from the map, whoever registered it
unregisterPoller(w, s) ==
  /\ pol' = [pol EXCEPT ![w][s] = FreePoller]
  /\ pollers' = [pollers EXCEPT ![w] = 0]

\* stopPollerForJob (pollers.go:170)
stopPollerForJob(w) ==
  IF pollers[w] # 0
  THEN /\ pol' = [pol EXCEPT ![w][pollers[w]].done = TRUE]
       /\ pollers' = [pollers EXCEPT ![w] = 0]
  ELSE UNCHANGED <<pollers, pol>>

\* ------------------------------------------------ values of the gateway tier
\* external user ids of the callers; the tenant id of a caller is its user id
Users == {"A", "B"}

\* values of uuid.NewString() (part_005:150)
JobIds == {"j1", "j2"}

\* the routing keys in use: job ids, and tenant ids
Keys == JobIds \cup Users

\* the three OAuth request headers, "" when the header is missing: the
\* headers of every user, and requests that lack one or all of them
Headers ==
  {[email |-> "mail", userId |-> u, provider |-> "idp"] : u \in Users}
    \cup {[email |-> "", userId |-> "", provider |-> ""],
          [email |-> "mail", userId |-> "A", provider |-> ""]}

RpcNames == {"SubmitJob", "ListJobs", "GetJob", "CancelJob", "DeleteJob"}

\* no call has been answered
NoRpc ==
  [via |-> Null, op |-> Null, tenant |-> Null, jobId |-> Null,
   code |-> Null, worker |-> Null, out |-> {}]

\* no function has been called
NoEval == [name |-> Null, in |-> Null, out |-> Null]

\* the gateway tier has served nothing, every worker process serves, and no
\* function has been called
Quiet ==
  /\ tenants = {}
  /\ jobs = {}
  /\ rpc = NoRpc
  /\ srv = [w \in Workers |-> "serving"]
  /\ fn = NoEval

\* and the ring sends every key to the first worker
Idle ==
  /\ Quiet
  /\ ring = [k \in Keys |-> "W1"]

\* the state in which the processes of the workers in up have started
FleetStart(up) ==
  /\ row = NoRow
  /\ log = {}
  /\ prov = "none"
  /\ alive = [w \in Workers |-> w \in up]
  /\ pollers = [w \in Workers |-> 0]
  /\ pol = [w \in Workers |-> [s \in Slots |-> FreePoller]]
  /\ timer = [w \in Workers |-> 0]
  /\ h = NoHandler
  /\ last = NoCall
  /\ crashes = 0
  /\ orphan = [age |-> 0, fault |-> FALSE]

Start(up) == FleetStart(up) /\ Idle

Init == Start(Workers)

\* one worker is deployed
InitOne == Start({"W1"})

\* ---------------------------------------------------------------- time
\* One time unit passes.  A reconciler tick that is due is served first.
Tick ==
  /\ \A w \in Workers : alive[w] => timer[w] > 0
  /\ timer' = [w \in Workers |-> IF alive[w] THEN timer[w] - 1 ELSE timer[w]]
  /\ row' = IF row.present
            THEN [row EXCEPT !.lease = AgeLease(@), !.hb = AgeBeat(@)]
            ELSE row
  /\ UNCHANGED <<log, prov, alive, pollers, pol, h, last, crashes>>
  /\ Track(TRUE, FALSE)
  /\ UNCHANGED rest

\* ---------------------------------------------------------------- poller
\* a tick that counts a failed lease call like a failed provider call
PollRenewCounting(w, s, ok) ==
  /\ alive[w]
  /\ pol[w][s].pc = "select"
  /\ LET res == IF ok THEN TryClaimOrRenewJobLease(row, w, LeaseTTL)
                ELSE [row |-> row, owned |-> FALSE, err |-> TRUE]
     IN /\ row' = res.row
        /\ IF res.err
           THEN IF pol[w][s].fails + 1 >= MaxFailedAttempts
                THEN unregisterPoller(w, s)
                ELSE /\ pol' = [pol EXCEPT ![w][s].fails = @ + 1]
                     /\ UNCHANGED pollers
           ELSE IF ~res.owned
           THEN unregisterPoller(w, s)
           ELSE /\ pol' = [pol EXCEPT ![w][s].pc = "renewed"]
                /\ UNCHANGED pollers
  /\ UNCHANGED <<log, prov, alive, timer, h, last, crashes>>
  /\ Track(FALSE, FALSE)
  /\ UNCHANGED rest

\* poll(), case <-ticker.C up to the lease renewal (pollers.go:79-91); ok is
\* whether the store call succeeds.  The select takes this case also when
\* done is closed, if the ticker is ready.  The lease call is one
\* transaction that commits at its first run; LeaseBegin, LeaseRetry and
\* LeaseCommit below are the call with its transaction run again.
PollRenew(w, s, ok) ==
  /\ alive[w]
  /\ pol[w][s].pc = "select"
  /\ LET res == IF ok THEN TryClaimOrRenewJobLease(row, w, LeaseTTL)
                ELSE [row |-> row, owned |-> FALSE, err |-> TRUE]
     IN /\ row' = res.row
        /\ IF res.err
           THEN UNCHANGED <<pollers, pol>>
           ELSE IF ~res.owned
           THEN unregisterPoller(w, s)
           ELSE /\ pol' = [pol EXCEPT ![w][s].pc = "renewed"]
                /\ UNCHANGED pollers
  /\ UNCHANGED <<log, prov, alive, timer, h, last, crashes>>
  /\ Track(FALSE, FALSE)
  /\ UNCHANGED rest

\* case <-poller.done (pollers.go:75-77)
PollDone(w, s) ==
  /\ alive[w]
  /\ pol[w][s].pc = "select"
  /\ pol[w][s].done
  /\ unregisterPoller(w, s)
  /\ UNCHANGED <<row, log, prov, alive, timer, h, last, crashes>>
  /\ Track(FALSE, FALSE)
  /\ UNCHANGED rest

\* what GetJobStatus can answer for the provider's job: its state, or
\* UNKNOWN for a native state outside the mapping (gcp/client.go:343-365)
ProviderAnswers ==
  IF prov \in CanonicalStatuses THEN {prov, JobStatusUnknown} ELSE {}

\* GetJobStatus succeeds with status (pollers.go:93, 106-115)
PollGetStatus(w, s, status) ==
  /\ alive[w]
  /\ pol[w][s].pc = "renewed"
  /\ status \in ProviderAnswers
  /\ LET dbStatus == mapBatchStatusToDBStatus(status)
         poller == pol[w][s]
     IN pol' = [pol EXCEPT ![w][s] =
                  IF dbStatus # poller.cur
                  THEN [poller EXCEPT !.pc = "write", !.old = poller.cur,
                                      !.cur = dbStatus, !.fails = 0]
                  ELSE [poller EXCEPT !.pc = "select", !.fails = 0]]
  /\ UNCHANGED <<row, log, prov, alive, pollers, timer, h, last, crashes>>
  /\ Track(FALSE, FALSE)
  /\ UNCHANGED rest

PollGet(w, s) ==
  \E status \in CanonicalStatuses \cup {JobStatusUnknown} :
    PollGetStatus(w, s, status)

\* a failed GetJobStatus that stops the poller one failure late
PollGetErrLate(w, s) ==
  /\ alive[w]
  /\ pol[w][s].pc = "renewed"
  /\ IF pol[w][s].fails + 1 > MaxFailedAttempts
     THEN unregisterPoller(w, s)
     ELSE /\ pol' = [pol EXCEPT ![w][s].pc = "select", ![w][s].fails = @ + 1]
          /\ UNCHANGED pollers
  /\ UNCHANGED <<row, log, prov, alive, timer, h, last, crashes>>
  /\ Track(FALSE, FALSE)
  /\ UNCHANGED rest

\* GetJobStatus fails (pollers.go:94-104)
PollGetErr(w, s) ==
  /\ alive[w]
  /\ pol[w][s].pc = "renewed"
  /\ IF pol[w][s].fails + 1 >= MaxFailedAttempts
     THEN unregisterPoller(w, s)
     ELSE /\ pol' = [pol EXCEPT ![w][s].pc = "select", ![w][s].fails = @ + 1]
          /\ UNCHANGED pollers
  /\ UNCHANGED <<row, log, prov, alive, timer, h, last, crashes>>
  /\ Track(FALSE, FALSE)
  /\ UNCHANGED rest

\* a changed status: UpdateJobStatus, RecordStateTransition and the terminal
\* check (pollers.go:112-138).  okStatus and okRecord are whether the two
\* store calls succeed; their errors are only logged.
PollWrite(w, s, okStatus, okRecord) ==
  /\ alive[w]
  /\ pol[w][s].pc = "write"
  /\ row' = IF okStatus THEN UpdateJobStatus(row, pol[w][s].cur) ELSE row
  /\ log' = IF okRecord
            THEN RecordStateTransition(row', log, pol[w][s].old, pol[w][s].cur)
            ELSE log
  /\ IF isTerminalStatus(pol[w][s].cur)
     THEN unregisterPoller(w, s)
     ELSE /\ pol' = [pol EXCEPT ![w][s].pc = "select", ![w][s].old = Null]
          /\ UNCHANGED pollers
  /\ UNCHANGED <<prov, alive, timer, h, last, crashes>>
  /\ Track(FALSE, FALSE)
  /\ UNCHANGED rest

\* ---------------------------------------------------------------- reconciler
\* reconcileActiveJobLeases (pollers.go:212-247), run by StartLeaseReconciler
\* at startup and on every claim-interval tick; ok is whether its store
\* calls succeed
reconcileActiveJobLeases(w, ok) ==
  /\ alive[w]
  /\ timer[w] = 0
  /\ timer' = [timer EXCEPT ![w] = ClaimInterval]
  /\ IF ok /\ ListActiveJobs(row)
     THEN LET res == TryClaimOrRenewJobLease(row, w, LeaseTTL)
          IN /\ row' = res.row
             /\ IF res.owned
                THEN startJobPoller(w, row.status)
                ELSE UNCHANGED <<pollers, pol>>
     ELSE UNCHANGED <<row, pollers, pol>>
  /\ UNCHANGED <<log, prov, alive, h, last, crashes>>
  /\ Track(FALSE, ~ok)
  /\ UNCHANGED rest

\* ---------------------------------------------------------------- provider
\* the provider runs the job
ProviderNext(st) ==
  CASE st = JobStatusPending -> {JobStatusScheduled}
    [] st = JobStatusScheduled -> {JobStatusRunning}
    [] st = JobStatusRunning -> {JobStatusCompleted, JobStatusFailed}
    [] OTHER -> {}

ProviderStep ==
  /\ \E st \in ProviderNext(prov) : prov' = st
  /\ UNCHANGED last
  /\ UNCHANGED <<row, log, alive, pollers, pol, timer, h, crashes>>
  /\ Track(FALSE, FALSE)
  /\ UNCHANGED rest

\* ---------------------------------------------------------------- SubmitJob
\* WorkerService.SubmitJob up to InsertJobFull (part_005:449-523); an insert
\* over an existing row fails and the handler returns an internal error
SubmitInsert(w) ==
  /\ alive[w]
  /\ h = NoHandler
  /\ IF InsertFails(row)
     THEN /\ h' = [kind |-> "submit", w |-> w, pc |-> "internal",
                   seen |-> "InsertJobFull"]
          /\ UNCHANGED row
     ELSE /\ row' = InsertJobFull(w)
          /\ h' = [kind |-> "submit", w |-> w, pc |-> "inserted",
                   seen |-> Null]
  /\ UNCHANGED last
  /\ UNCHANGED <<log, prov, alive, pollers, pol, timer, crashes>>
  /\ Track(FALSE, FALSE)
  /\ UNCHANGED rest

\* s.batchProvider.SubmitJob (part_005:569-581).  initial is InitialStatus of
\* the result; a job the provider already holds under the request id is
\* answered with its state.
SubmitProvider(ok, initial) ==
  /\ h.kind = "submit"
  /\ h.pc = "inserted"
  /\ IF ok
     THEN /\ prov \in CanonicalStatuses => initial \in {prov, JobStatusUnknown}
          /\ prov' = IF prov \in CanonicalStatuses THEN prov
                     ELSE IF initial = JobStatusUnknown THEN JobStatusPending
                     ELSE initial
          /\ h' = [h EXCEPT !.pc = "submitted", !.seen = initial]
     ELSE /\ initial = JobStatusUnknown
          /\ h' = [h EXCEPT !.pc = "failing"]
          /\ UNCHANGED prov
  /\ UNCHANGED last
  /\ UNCHANGED <<row, log, alive, pollers, pol, timer, crashes>>
  /\ Track(FALSE, FALSE)
  /\ UNCHANGED rest

\* FailJob after a failed provider submit (part_005:572-580); failErr is
\* only logged
SubmitFail(ok) ==
  /\ h.kind = "submit"
  /\ h.pc = "failing"
  /\ row' = IF ok THEN FailJob(row) ELSE row
  /\ h' = [h EXCEPT !.pc = "internal",
                    !.seen = IF ok /\ row.present THEN "SubmitJob"
                             ELSE "FailJob"]
  /\ UNCHANGED last
  /\ UNCHANGED <<log, prov, alive, pollers, pol, timer, crashes>>
  /\ Track(FALSE, FALSE)
  /\ UNCHANGED rest

\* statusToSet without the default
initialStatusAsIs(initial) == initial

\* statusToSet (part_005:584-587)
StatusToSet(initial) ==
  IF initial = "" \/ initial = JobStatusUnknown
  THEN JobStatusRunning ELSE initial

\* UpdateJobStatusAndGcpBatchJobName and startJobPoller (part_005:583-609)
SubmitUpdate(ok) ==
  /\ h.kind = "submit"
  /\ h.pc = "submitted"
  /\ IF ok /\ row.present
     THEN /\ row' = UpdateJobStatusAndGcpBatchJobName(
                      row, StatusToSet(h.seen), CloudPath)
          /\ startJobPoller(h.w, StatusToSet(h.seen))
          /\ h' = NoHandler
     ELSE /\ h' = [h EXCEPT !.pc = "internal",
                            !.seen = "UpdateJobStatusAndGcpBatchJobName"]
          /\ UNCHANGED <<row, pollers, pol>>
  /\ UNCHANGED last
  /\ UNCHANGED <<log, prov, alive, timer, crashes>>
  /\ Track(FALSE, FALSE)
  /\ UNCHANGED rest

\* SubmitJob returns connect.CodeInternal (part_005:516-522, 576-579,
\* 592-597)
SubmitError ==
  /\ h.kind = "submit"
  /\ h.pc = "internal"
  /\ h' = NoHandler
  /\ UNCHANGED last
  /\ UNCHANGED <<row, log, prov, alive, pollers, pol, timer, crashes>>
  /\ Track(FALSE, FALSE)
  /\ UNCHANGED rest

\* ---------------------------------------------------------------- CancelJob
\* WorkerService.CancelJob up to the cancellable check (part_005:648-678)
CancelRead(w) ==
  /\ alive[w]
  /\ h = NoHandler
  /\ row.present
  /\ h' = [kind |-> "cancel", w |-> w,
           pc |-> IF ~isCancellableStatus(row.status) THEN "invalid"
                  ELSE IF row.path # Null THEN "provider" ELSE "write",
           seen |-> row.status]
  /\ UNCHANGED last
  /\ UNCHANGED <<row, log, prov, alive, pollers, pol, timer, crashes>>
  /\ Track(FALSE, FALSE)
  /\ UNCHANGED rest

\* CancelJob returns connect.CodeInvalidArgument (part_005:673-678)
CancelInvalid ==
  /\ h.kind = "cancel"
  /\ h.pc = "invalid"
  /\ h' = NoHandler
  /\ UNCHANGED last
  /\ UNCHANGED <<row, log, prov, alive, pollers, pol, timer, crashes>>
  /\ Track(FALSE, FALSE)
  /\ UNCHANGED rest

\* gcpBatchClient.CancelJob and op.Poll (part_005:680-697); the provider
\* refuses to cancel a job that has ended
CancelProvider(ok) ==
  /\ h.kind = "cancel"
  /\ h.pc = "provider"
  /\ IF ok
     THEN /\ prov \in CanonicalStatuses
          /\ ~isTerminalStatus(prov)
          /\ prov' = JobStatusCancelled
          /\ h' = [h EXCEPT !.pc = "write"]
     ELSE /\ h' = [h EXCEPT !.pc = "internal"]
          /\ UNCHANGED prov
  /\ UNCHANGED last
  /\ UNCHANGED <<row, log, alive, pollers, pol, timer, crashes>>
  /\ Track(FALSE, FALSE)
  /\ UNCHANGED rest

\* CancelJob returns connect.CodeInternal after its provider call failed
\* (part_005:686-696)
CancelError ==
  /\ h.kind = "cancel"
  /\ h.pc = "internal"
  /\ h' = NoHandler
  /\ UNCHANGED last
  /\ UNCHANGED <<row, log, prov, alive, pollers, pol, timer, crashes>>
  /\ Track(FALSE, FALSE)
  /\ UNCHANGED rest

\* UpdateJobStatus(CANCELLED) (part_005:699-704)
CancelWrite(ok) ==
  /\ h.kind = "cancel"
  /\ h.pc = "write"
  /\ IF ok /\ row.present
     THEN /\ row' = UpdateJobStatus(row, JobStatusCancelled)
          /\ h' = [h EXCEPT !.pc = "record"]
     ELSE /\ h' = NoHandler
          /\ UNCHANGED row
  /\ UNCHANGED last
  /\ UNCHANGED <<log, prov, alive, pollers, pol, timer, crashes>>
  /\ Track(FALSE, FALSE)
  /\ UNCHANGED rest

\* RecordStateTransition and stopPollerForJob (part_005:706-724)
CancelRecord(ok) ==
  /\ h.kind = "cancel"
  /\ h.pc = "record"
  /\ log' = IF ok
            THEN RecordStateTransition(row, log, h.seen, JobStatusCancelled)
            ELSE log
  /\ stopPollerForJob(h.w)
  /\ h' = NoHandler
  /\ UNCHANGED last
  /\ UNCHANGED <<row, prov, alive, timer, crashes>>
  /\ Track(FALSE, FALSE)
  /\ UNCHANGED rest

\* ---------------------------------------------------------------- DeleteJob
\* WorkerService.DeleteJob up to GetJob (part_005:727-749)
DeleteRead(w) ==
  /\ alive[w]
  /\ h = NoHandler
  /\ h' = [kind |-> "delete", w |-> w,
           pc |-> IF ~row.present THEN "notfound"
                  ELSE IF row.path # Null THEN "provider" ELSE "row",
           seen |-> row.status]
  /\ UNCHANGED last
  /\ UNCHANGED <<row, log, prov, alive, pollers, pol, timer, crashes>>
  /\ Track(FALSE, FALSE)
  /\ UNCHANGED rest

\* DeleteJob returns connect.CodeNotFound when GetJob finds no row
\* (part_005:744-749)
DeleteNotFound ==
  /\ h.kind = "delete"
  /\ h.pc = "notfound"
  /\ h' = NoHandler
  /\ UNCHANGED last
  /\ UNCHANGED <<row, log, prov, alive, pollers, pol, timer, crashes>>
  /\ Track(FALSE, FALSE)
  /\ UNCHANGED rest

\* gcpBatchClient.DeleteJob and op.Poll (part_005:751-768)
DeleteProvider(ok) ==
  /\ h.kind = "delete"
  /\ h.pc = "provider"
  /\ IF ok
     THEN /\ prov \in CanonicalStatuses
          /\ prov' = "deleted"
          /\ h' = [h EXCEPT !.pc = "row"]
     ELSE /\ h' = [h EXCEPT !.pc = "internal"]
          /\ UNCHANGED prov
  /\ UNCHANGED last
  /\ UNCHANGED <<row, log, alive, pollers, pol, timer, crashes>>
  /\ Track(FALSE, FALSE)
  /\ UNCHANGED rest

\* a return that stops the poller of the job on its way out
DeleteErrorStoppingPoller ==
  /\ h.kind = "delete"
  /\ h.pc = "internal"
  /\ h' = NoHandler
  /\ stopPollerForJob(h.w)
  /\ UNCHANGED last
  /\ UNCHANGED <<row, log, prov, alive, timer, crashes>>
  /\ Track(FALSE, FALSE)
  /\ UNCHANGED rest

\* DeleteJob returns connect.CodeInternal after its provider call failed
\* (part_005:757-767)
DeleteError ==
  /\ h.kind = "delete"
  /\ h.pc = "internal"
  /\ h' = NoHandler
  /\ UNCHANGED last
  /\ UNCHANGED <<row, log, prov, alive, pollers, pol, timer, crashes>>
  /\ Track(FALSE, FALSE)
  /\ UNCHANGED rest

\* dbClient.DeleteJob, which cascades to the transitions, and
\* stopPollerForJob (part_005:770-788)
DeleteRow(ok) ==
  /\ h.kind = "delete"
  /\ h.pc = "row"
  /\ IF ok
     THEN /\ row' = NoRow
          /\ log' = {}
          /\ stopPollerForJob(h.w)
     ELSE UNCHANGED <<row, log, pollers, pol>>
  /\ h' = NoHandler
  /\ UNCHANGED last
  /\ UNCHANGED <<prov, alive, timer, crashes>>
  /\ Track(FALSE, FALSE)
  /\ UNCHANGED rest

\* ---------------------------------------------------------------- processes
\* the worker process stops: its goroutines, its poller map and the handler
\* it is serving are gone.  At least one worker keeps running.
Crash(w) ==
  /\ alive[w]
  /\ \E v \in Workers \ {w} : alive[v]
  /\ crashes < MaxCrashes
  /\ alive' = [alive EXCEPT ![w] = FALSE]
  /\ pollers' = [pollers EXCEPT ![w] = 0]
  /\ pol' = [pol EXCEPT ![w] = [s \in Slots |-> FreePoller]]
  /\ timer' = [timer EXCEPT ![w] = 0]
  /\ h' = IF h.w = w THEN NoHandler ELSE h
  /\ crashes' = crashes + 1
  /\ UNCHANGED last
  /\ UNCHANGED <<row, log, prov>>
  /\ Track(FALSE, FALSE)
  /\ UNCHANGED rest

\* the worker process starts (serve.go:100-128): the startup scan is due
Restart(w) ==
  /\ ~alive[w]
  /\ alive' = [alive EXCEPT ![w] = TRUE]
  /\ UNCHANGED last
  /\ UNCHANGED <<row, log, prov, pollers, pol, timer, h, crashes>>
  /\ Track(FALSE, FALSE)
  /\ UNCHANGED rest

\* ---------------------------------------------------------------- system
\* ---------------------------------------------------------------- lease calls
\* the row is held by another worker: an unexpired lease of a worker other
\* than w, and w is not the preferred worker
HeldByOther(r, w) ==
  /\ r.present
  /\ r.owner \notin {Null, "", w}
  /\ r.lease # NullTime
  /\ r.lease[1] >= 0
  /\ r.preferred # w

\* the workers other than w with a call in progress
OpenCalls(w) == {v \in Workers \ {w} : last.txn[v].pc = "open"}

\* one run of the transaction function (jobs.go:294-330) by the call t of
\* worker w.  claimed is declared outside the function (jobs.go:292) and the
\* function only ever sets it, so a run repeated after an abort keeps the
\* value an earlier run left.  An error of the read ends the call
\* (jobs.go:333-335).
Attempt(w, t) ==
  LET res == TryClaimOrRenewJobLease(row, w, t.e)
  IN IF res.err
     THEN last' = [txn |-> [last.txn EXCEPT ![w] = IdleTxn],
                   ret |-> [w |-> w, e |-> t.e, pre |-> row,
                            owned |-> FALSE, err |-> TRUE,
                            open |-> OpenCalls(w)]]
     ELSE last' = [last EXCEPT !.txn[w] =
                     [t EXCEPT !.pc = "open", !.hit = FALSE,
                               !.claimed = t.claimed \/ res.owned]]

\* worker w calls TryClaimOrRenewJobLease with leaseUntil = now + e, as the
\* poller (pollers.go:80-81) and the reconciler (pollers.go:228) do, and the
\* function runs for the first time
LeaseBegin(w, e) ==
  /\ last.txn[w].pc = "idle"
  /\ Attempt(w, [IdleTxn EXCEPT !.e = e, !.locked = HeldByOther(row, w)])
  /\ UNCHANGED <<row, log, prov, alive, pollers, pol, timer, h, crashes,
                 orphan>>
  /\ UNCHANGED rest

\* the transaction was aborted because another transaction wrote the row it
\* had read; ReadWriteTransaction (jobs.go:293) runs the function again
LeaseRetry(w) ==
  /\ last.txn[w].pc = "open"
  /\ last.txn[w].hit
  /\ Attempt(w, last.txn[w])
  /\ UNCHANGED <<row, log, prov, alive, pollers, pol, timer, h, crashes,
                 orphan>>
  /\ UNCHANGED rest

\* the transaction commits and the call returns claimed (jobs.go:337); the
\* open transactions of the other workers that read the row it wrote will
\* be aborted
LeaseCommit(w) ==
  /\ last.txn[w].pc = "open"
  /\ ~last.txn[w].hit
  /\ LET t == last.txn[w]
         res == TryClaimOrRenewJobLease(row, w, t.e)
     IN /\ row' = res.row
        /\ last' =
             [txn |-> [v \in Workers |->
                        IF v = w THEN IdleTxn
                        ELSE IF last.txn[v].pc = "open" /\ res.owned
                        THEN [last.txn[v] EXCEPT !.hit = TRUE]
                        ELSE last.txn[v]],
              ret |-> [w |-> w, e |-> t.e, pre |-> row, owned |-> t.claimed,
                       err |-> FALSE, open |-> OpenCalls(w)]]
  /\ UNCHANGED <<log, prov, alive, pollers, pol, timer, h, crashes, orphan>>
  /\ UNCHANGED rest

\* time passes over the row between two lease calls
LeaseTick ==
  /\ row.present
  /\ \A w \in Workers : last.txn[w].pc = "idle"
  /\ row' = [row EXCEPT !.lease = AgeLease(@), !.hb = AgeBeat(@)]
  /\ last' = NoCall
  /\ UNCHANGED <<log, prov, alive, pollers, pol, timer, h, crashes, orphan>>
  /\ UNCHANGED rest

\* rows of the Jobs table a lease call can meet: rows written by
\* InsertJobFull and lease calls, rows of InsertJob (jobs.go:13) and of the
\* time before the lease columns, whose lease fields are NULL, and no row
LeaseRows ==
  [present : {TRUE}, status : CanonicalStatuses, path : {CloudPath},
   owner : Workers \cup {Null, ""}, preferred : Workers \cup {Null},
   lease : {NullTime} \cup {<<n>> : n \in (-1)..LeaseTTL},
   hb : {NullTime, <<0>>}, err : {FALSE}]
  \cup {NoRow}

InitLease ==
  /\ row \in LeaseRows
  /\ log = {}
  /\ prov = "none"
  /\ alive = [w \in Workers |-> TRUE]
  /\ pollers = [w \in Workers |-> 0]
  /\ pol = [w \in Workers |-> [s \in Slots |-> FreePoller]]
  /\ timer = [w \in Workers |-> 0]
  /\ h = NoHandler
  /\ last = NoCall
  /\ crashes = 0
  /\ orphan = [age |-> 0, fault |-> FALSE]
  /\ Idle

NextLease ==
  \/ \E w \in Workers, e \in 1..LeaseTTL : LeaseBegin(w, e)
  \/ \E w \in Workers : LeaseRetry(w)
  \/ \E w \in Workers : LeaseCommit(w)
  \/ LeaseTick

SpecLease == InitLease /\ [][NextLease]_vars

\* ---------------------------------------------------------------- system
\* the worker the gateway's router gives for the job id: every RPC for the
\* job is forwarded to it (part_005:36-50)
RoutedWorker == "W1"

\* statuses CreateJob answers for a job it has just queued: QUEUED, or a
\* state outside the mapping
QueuedStatuses == {JobStatusPending, JobStatusUnknown}

\* what a provider can report as JobResult.InitialStatus: a canonical
\* status, UNKNOWN, or the zero value of the string type
AllStatuses == CanonicalStatuses \cup {JobStatusUnknown, ""}

\* a store that can fail a call, and one that answers every call
Unreliable == BOOLEAN
Reliable == {TRUE}

\* pollers and reconcilers of all workers, the provider and the clock; the
\* transition log is written when audit is TRUE (no code reads it), store
\* is how the store's calls can end
Pollers(audit, store) ==
  \/ \E w \in Workers, s \in Slots, ok \in store : PollRenew(w, s, ok)
  \/ \E w \in Workers, s \in Slots : PollGet(w, s)
  \/ \E w \in Workers, s \in Slots : PollGetErr(w, s)
  \/ \E w \in Workers, s \in Slots, okStatus \in store :
       PollWrite(w, s, okStatus, audit)

Reconcilers(store) ==
  \E w \in Workers, ok \in store : reconcileActiveJobLeases(w, ok)

Background(audit, store) ==
  \/ Tick
  \/ ProviderStep
  \/ Pollers(audit, store)
  \/ Reconcilers(store)

SubmitJob(W, I) ==
  \/ \E w \in W : SubmitInsert(w)
  \/ \E ok \in BOOLEAN, initial \in I : SubmitProvider(ok, initial)
  \/ \E ok \in BOOLEAN : SubmitFail(ok)
  \/ \E ok \in BOOLEAN : SubmitUpdate(ok)
  \/ SubmitError

\* CancelJob with the exit of the pollers it stops
CancelJob(W, audit) ==
  \/ \E w \in Workers, s \in Slots : PollDone(w, s)
  \/ \E w \in W : CancelRead(w)
  \/ CancelInvalid
  \/ \E ok \in BOOLEAN : CancelProvider(ok)
  \/ CancelError
  \/ \E ok \in BOOLEAN : CancelWrite(ok)
  \/ CancelRecord(audit)

DeleteJob(W) ==
  \/ \E w \in W : DeleteRead(w)
  \/ DeleteNotFound
  \/ \E ok \in BOOLEAN : DeleteProvider(ok)
  \/ DeleteError
  \/ \E ok \in BOOLEAN : DeleteRow(ok)

Processes ==
  \/ \E w \in Workers : Crash(w)
  \/ \E w \in Workers : Restart(w)

\* the whole system
Next ==
  \/ Background(TRUE, Unreliable)
  \/ \E w \in Workers, s \in Slots, okStatus \in BOOLEAN :
       PollWrite(w, s, okStatus, FALSE)
  \/ SubmitJob(Workers, AllStatuses)
  \/ CancelJob(Workers, TRUE)
  \/ CancelRecord(FALSE)
  \/ DeleteJob(Workers)
  \/ Processes

Spec == Init /\ [][Next]_vars

\* the fleet after SubmitJob returned on the routed worker, which
\* registered its poller, with the provider's job in state p
Submitted(p) ==
  /\ row = UpdateJobStatusAndGcpBatchJobName(
             InsertJobFull(RoutedWorker), JobStatusRunning, CloudPath)
  /\ log = {}
  /\ prov = p
  /\ alive = [w \in Workers |-> TRUE]
  /\ pollers = [w \in Workers |-> IF w = RoutedWorker THEN 1 ELSE 0]
  /\ pol = [w \in Workers |-> [s \in Slots |->
              IF w = RoutedWorker /\ s = 1
              THEN NewPoller(JobStatusRunning) ELSE FreePoller]]
  /\ timer = [w \in Workers |-> 0]
  /\ h = NoHandler
  /\ last = NoCall
  /\ crashes = 0
  /\ orphan = [age |-> 0, fault |-> FALSE]
  /\ Idle

\* a running job, worker stops and restarts, and a store that can fail any
\* call
NextFailover ==
  \/ Tick
  \/ ProviderStep
  \/ Pollers(FALSE, Unreliable)
  \/ Reconcilers(Unreliable)
  \/ Processes

SpecFailover == Submitted(JobStatusRunning) /\ [][NextFailover]_vars

\* a job the provider has ended, worker stops and restarts, pollers whose
\* store and provider calls can fail
NextLive ==
  \/ Tick
  \/ Pollers(FALSE, Unreliable)
  \/ Reconcilers(Reliable)
  \/ Processes

\* the slot of the poller registered on w
Registered(w) == {s \in Slots : s = pollers[w]}

\* time passes, every reconciler gets its scans, and the registered poller
\* of every worker gets its lease call, the provider's answer and its
\* write through in the end
Fairness ==
  /\ WF_vars(Tick)
  /\ \A w \in Workers : SF_vars(reconcileActiveJobLeases(w, TRUE))
  /\ \A w \in Workers :
       /\ SF_vars(\E s \in Registered(w) : PollRenew(w, s, TRUE))
       /\ SF_vars(\E s \in Registered(w) : PollGetStatus(w, s, prov))
       /\ SF_vars(\E s \in Registered(w) : PollWrite(w, s, TRUE, FALSE))

SpecLive == Submitted(JobStatusCompleted) /\ [][NextLive]_vars /\ Fairness

\* the fleet after the routed worker stopped, the other worker took its
\* running job over, and the routed worker came back and took the job back
\* in its startup scan: both have a poller for the job, and the other
\* worker's poller is in the tick in which it renewed its lease last
HandedBackFleet ==
  /\ row = TryClaimOrRenewJobLease(
             UpdateJobStatusAndGcpBatchJobName(
               InsertJobFull(RoutedWorker), JobStatusRunning, CloudPath),
             RoutedWorker, LeaseTTL).row
  /\ log = {}
  /\ prov = JobStatusRunning
  /\ alive = [w \in Workers |-> TRUE]
  /\ pollers = [w \in Workers |-> 1]
  /\ pol = [w \in Workers |-> [s \in Slots |->
              IF s # 1 THEN FreePoller
              ELSE IF w = RoutedWorker THEN NewPoller(JobStatusRunning)
              ELSE [NewPoller(JobStatusRunning) EXCEPT !.pc = "renewed"]]]
  /\ timer = [w \in Workers |-> IF w = RoutedWorker THEN ClaimInterval ELSE 0]
  /\ h = NoHandler
  /\ last = NoCall
  /\ crashes = MaxCrashes
  /\ orphan = [age |-> 0, fault |-> FALSE]
  /\ Idle

\* a running job and cancellations through the gateway, within the claim
\* interval and the lease the fleet starts with
NextRevoke ==
  \/ Pollers(FALSE, Reliable)
  \/ Reconcilers(Reliable)
  \/ CancelJob({RoutedWorker}, FALSE)

\* a reconciler scan that is due is made, CancelJob gets to its end, and on
\* every worker a poller goroutine that is waiting gets its lease call,
\* the provider's answer, its write through and the done signal it was
\* sent
FairnessRevoke ==
  /\ WF_vars(CancelRecord(FALSE))
  /\ \A w \in Workers :
       /\ SF_vars(reconcileActiveJobLeases(w, TRUE))
       /\ SF_vars(\E s \in Slots : PollRenew(w, s, TRUE))
       /\ SF_vars(\E s \in Slots : PollGetStatus(w, s, prov))
       /\ SF_vars(\E s \in Slots : PollWrite(w, s, TRUE, FALSE))
       /\ SF_vars(\E s \in Slots : PollDone(w, s))

SpecRevoke == HandedBackFleet /\ [][NextRevoke]_vars /\ FairnessRevoke

\* submissions through the gateway, worker stops and restarts, and a store
\* that answers every call
NextHandover ==
  \/ Background(FALSE, Reliable)
  \/ SubmitJob({RoutedWorker}, QueuedStatuses)
  \/ Processes

SpecHandover == Init /\ [][NextHandover]_vars

\* submissions and cancellations through the gateway to the one worker
\* deployed
NextCancel ==
  \/ Background(FALSE, Reliable)
  \/ SubmitJob({RoutedWorker}, QueuedStatuses)
  \/ CancelJob({RoutedWorker}, FALSE)

SpecCancel == InitOne /\ [][NextCancel]_vars

\* submissions and deletions through the gateway to the one worker
\* deployed, within one lease period
NextDelete ==
  \/ ProviderStep
  \/ Pollers(FALSE, Reliable)
  \/ Reconcilers(Reliable)
  \/ SubmitJob({RoutedWorker}, QueuedStatuses)
  \/ DeleteJob({RoutedWorker})

SpecDelete == InitOne /\ [][NextDelete]_vars

\* submissions through the gateway to the one worker deployed, with the
\* transition log
NextAudit ==
  \/ Background(TRUE, Reliable)
  \/ SubmitJob({RoutedWorker}, AllStatuses)

SpecAudit == InitOne /\ [][NextAudit]_vars

\* a job the provider is running, provider calls that can fail, workers
\* that stay up and a store that answers every call
NextSurrender ==
  \/ Tick
  \/ ProviderStep
  \/ Pollers(FALSE, Reliable)
  \/ Reconcilers(Reliable)

SpecSurrender == Submitted(JobStatusRunning) /\ [][NextSurrender]_vars

\* submissions through the gateway to the one worker deployed, for which
\* the provider can answer any initial status, within one lease period
NextTerminal ==
  \/ ProviderStep
  \/ Pollers(FALSE, Reliable)
  \/ Reconcilers(Reliable)
  \/ SubmitJob({RoutedWorker}, AllStatuses)

\* every poller goroutine gets its ticks: the lease call, the provider's
\* answer or its failure, and the write
FairnessTerminal ==
  \A w \in Workers :
    /\ WF_vars(\E s \in Slots : PollRenew(w, s, TRUE))
    /\ WF_vars(\E s \in Slots : PollGet(w, s) \/ PollGetErr(w, s))
    /\ WF_vars(\E s \in Slots : PollWrite(w, s, TRUE, FALSE))

SpecTerminal == InitOne /\ [][NextTerminal]_vars /\ FairnessTerminal

\* submissions and cancellations through the gateway to the one worker
\* deployed, with the transition log and a store that can fail a poller's
\* call, within one lease period
NextRecords ==
  \/ ProviderStep
  \/ Pollers(TRUE, Unreliable)
  \/ Reconcilers(Reliable)
  \/ SubmitJob({RoutedWorker}, QueuedStatuses)
  \/ CancelJob({RoutedWorker}, TRUE)

SpecRecords == InitOne /\ [][NextRecords]_vars

\* a running job with a poller on both workers, and deletions through the
\* gateway
NextCascade ==
  \/ Pollers(FALSE, Reliable)
  \/ Reconcilers(Reliable)
  \/ \E w \in Workers, s \in Slots : PollDone(w, s)
  \/ DeleteJob({RoutedWorker})

\* DeleteJob gets to its end, a reconciler scan that is due is made, and
\* every poller goroutine gets its ticks and the done signal it was sent
FairnessCascade ==
  /\ WF_vars(DeleteNotFound)
  /\ WF_vars(\E ok \in BOOLEAN : DeleteProvider(ok))
  /\ WF_vars(\E ok \in BOOLEAN : DeleteRow(ok))
  /\ \A w \in Workers :
       /\ WF_vars(reconcileActiveJobLeases(w, TRUE))
       /\ SF_vars(\E s \in Slots : PollRenew(w, s, TRUE))
       /\ SF_vars(\E s \in Slots : PollGet(w, s) \/ PollGetErr(w, s))
       /\ SF_vars(\E s \in Slots : PollWrite(w, s, TRUE, FALSE))
       /\ SF_vars(\E s \in Slots : PollDone(w, s))

SpecCascade == HandedBackFleet /\ [][NextCascade]_vars /\ FairnessCascade

\* a running job with its poller, cancellations and deletions through the
\* gateway whose provider calls can fail, with the transition log
NextProviderFails ==
  \/ ProviderStep
  \/ Pollers(TRUE, Reliable)
  \/ CancelJob({RoutedWorker}, TRUE)
  \/ DeleteJob({RoutedWorker})

SpecProviderFails == Submitted(JobStatusRunning) /\ [][NextProviderFails]_vars

\* ---------------------------------------------------------------- shutdown
\* the process receives SIGTERM or an interrupt: sigCtx is done
\* (serve.go:125-126, 145-146)
Signal(w) ==
  /\ alive[w]
  /\ srv[w] = "serving"
  /\ srv' = [srv EXCEPT ![w] = "signalled"]
  /\ UNCHANGED <<row, log, prov, alive, pollers, pol, timer, h, last, crashes,
                 orphan, tenants, jobs, ring, rpc, fn>>

\* StopAllPollers (pollers.go:151-161), called first after the signal
\* (serve.go:149): done is closed for every registered poller and the map is
\* emptied, while the server still listens
StopAllPollers(w) ==
  /\ alive[w]
  /\ srv[w] = "signalled"
  /\ stopPollerForJob(w)
  /\ srv' = [srv EXCEPT ![w] = "stopped"]
  /\ UNCHANGED <<row, log, prov, alive, timer, h, last, crashes, orphan,
                 tenants, jobs, ring, rpc, fn>>

\* server.Shutdown (serve.go:151-156) closes the listener: no new call is
\* accepted, the calls in flight go on
ServerShutdown(w) ==
  /\ alive[w]
  /\ srv[w] = "stopped"
  /\ srv' = [srv EXCEPT ![w] = "closed"]
  /\ UNCHANGED <<row, log, prov, alive, pollers, pol, timer, h, last, crashes,
                 orphan, tenants, jobs, ring, rpc, fn>>

\* server.Shutdown returns, when the calls in flight have ended or after
\* its 30 seconds, and runServe returns (serve.go:151-159): the process and
\* its goroutines are gone
Exit(w) ==
  /\ alive[w]
  /\ srv[w] = "closed"
  /\ srv' = [srv EXCEPT ![w] = "down"]
  /\ alive' = [alive EXCEPT ![w] = FALSE]
  /\ pollers' = [pollers EXCEPT ![w] = 0]
  /\ pol' = [pol EXCEPT ![w] = [s \in Slots |-> FreePoller]]
  /\ timer' = [timer EXCEPT ![w] = 0]
  /\ h' = IF h.w = w THEN NoHandler ELSE h
  /\ UNCHANGED <<row, log, prov, last, crashes, tenants, jobs, ring, rpc, fn>>
  /\ Track(FALSE, FALSE)

\* the workers whose server accepts a new call
Accepting == {w \in Workers : srv[w] \in {"serving", "signalled", "stopped"}}

\* submissions through the gateway to the one worker deployed, and the
\* graceful shutdown of that worker
NextShutdown ==
  \/ Background(FALSE, Reliable)
  \/ SubmitJob({RoutedWorker} \cap Accepting, QueuedStatuses)
  \/ \E w \in Workers : Signal(w)
  \/ \E w \in Workers : StopAllPollers(w)
  \/ \E w \in Workers : ServerShutdown(w)
  \/ \E w \in Workers : Exit(w)

SpecShutdown == InitOne /\ [][NextShutdown]_vars

\* ------------------------------------------------------------ gateway tier
\* extractOAuthUser: an error when one of the three headers is missing
extractOAuthUser(header) ==
  IF header.email = "" \/ header.userId = "" \/ header.provider = ""
  THEN [err |-> TRUE, user |-> Null]
  ELSE [err |-> FALSE, user |-> header.userId]

\* getOrCreateTenant: the tenant of the external identity, inserted when the
\* Tenants relation has none
getOrCreateTenant(ts, user) == [tenants |-> ts \cup {user}, id |-> user]

\* resolveTenant (part_005:20-34)
resolveTenant(ts, header) ==
  LET oauthUser == extractOAuthUser(header)
  IN IF oauthUser.err
     THEN [code |-> "unauthenticated", tenants |-> ts, id |-> Null]
     ELSE LET t == getOrCreateTenant(ts, oauthUser.user)
          IN [code |-> "ok", tenants |-> t.tenants, id |-> t.id]

\* Router.GetWorkerIP: the ring is fixed when the gateway starts
GetWorkerIP(routingKey) == ring[routingKey]

\* the routing key of SubmitJob (part_005:150-151)
submitKey(tenantId, jobId) == jobId

\* a gateway that routes the follow-up calls by tenant
tenantKey(tenantId, jobId) == tenantId

\* the routing key of CancelJob, DeleteJob and GetJob (part_005:236, 269,
\* 302)
followUpKey(tenantId, jobId) == jobId

\* rows of the Jobs relation under the key (tenantID, jobID)
JobsOf(js, tenantID, jobID) ==
  {j \in js : j.tenant = tenantID /\ j.id = jobID}

\* a listing that leaves the tenant out of the query
ListEveryJob(js, tenantID) == js

\* database.ListJobs (jobs.go:67-99): WHERE TenantId = @tenantId
ListJobs(js, tenantID) == {j \in js : j.tenant = tenantID}

\* WorkerService.SubmitJob on worker w, with the provider's answer
\* (part_005:449-609): the row is inserted with the worker as its owner
workerSubmitJob(js, w, tenantID, jobID, image, ok, initial) ==
  IF tenantID = "" \/ image = ""
  THEN [code |-> "invalid_argument", jobs |-> js, out |-> {}]
  ELSE IF JobsOf(js, tenantID, jobID) # {}
  THEN [code |-> "internal", jobs |-> js, out |-> {}]
  ELSE LET stored == [tenant |-> tenantID, id |-> jobID, owner |-> w,
                      status |-> IF ok THEN StatusToSet(initial)
                                 ELSE JobStatusFailed]
       IN [code |-> IF ok THEN "ok" ELSE "internal",
           jobs |-> js \cup {stored}, out |-> {stored}]

\* WorkerService.ListJobs (part_005:612-645)
workerListJobs(js, tenantID) ==
  IF tenantID = ""
  THEN [code |-> "invalid_argument", jobs |-> js, out |-> {}]
  ELSE [code |-> "ok", jobs |-> js, out |-> ListJobs(js, tenantID)]

\* WorkerService.GetJob (part_005:791-826)
workerGetJob(js, tenantID, jobID) ==
  IF tenantID = "" \/ jobID = ""
  THEN [code |-> "invalid_argument", jobs |-> js, out |-> {}]
  ELSE IF JobsOf(js, tenantID, jobID) = {}
  THEN [code |-> "not_found", jobs |-> js, out |-> {}]
  ELSE [code |-> "ok", jobs |-> js, out |-> JobsOf(js, tenantID, jobID)]

\* WorkerService.CancelJob with a provider and a store that answer
\* (part_005:648-724)
workerCancelJob(js, tenantID, jobID) ==
  IF tenantID = "" \/ jobID = ""
  THEN [code |-> "invalid_argument", jobs |-> js, out |-> {}]
  ELSE IF JobsOf(js, tenantID, jobID) = {}
  THEN [code |-> "not_found", jobs |-> js, out |-> {}]
  ELSE IF \E j \in JobsOf(js, tenantID, jobID) :
            ~isCancellableStatus(j.status)
  THEN [code |-> "invalid_argument", jobs |-> js, out |-> {}]
  ELSE [code |-> "ok",
        jobs |-> (js \ JobsOf(js, tenantID, jobID)) \cup
                 {[j EXCEPT !.status = JobStatusCancelled] :
                    j \in JobsOf(js, tenantID, jobID)},
        out |-> {}]

\* WorkerService.DeleteJob with a provider and a store that answer
\* (part_005:727-788)
workerDeleteJob(js, tenantID, jobID) ==
  IF tenantID = "" \/ jobID = ""
  THEN [code |-> "invalid_argument", jobs |-> js, out |-> {}]
  ELSE IF JobsOf(js, tenantID, jobID) = {}
  THEN [code |-> "not_found", jobs |-> js, out |-> {}]
  ELSE [code |-> "ok", jobs |-> js \ JobsOf(js, tenantID, jobID),
        out |-> {}]

\* the worker's handler of a follow-up call
workerFollowUp(op, js, tenantID, jobID) ==
  CASE op = "GetJob" -> workerGetJob(js, tenantID, jobID)
    [] op = "CancelJob" -> workerCancelJob(js, tenantID, jobID)
    [] op = "DeleteJob" -> workerDeleteJob(js, tenantID, jobID)

\* the gateway returns a worker's error as CodeInternal (part_005:176-179,
\* 244-247, 275-278, 308-311)
wrapped(code) == IF code = "ok" THEN "ok" ELSE "internal"

\* the steps of the gateway tier leave the fleet's variables of the one key
\* alone
FleetUnchanged ==
  UNCHANGED <<row, log, prov, alive, pollers, pol, timer, h, last, crashes,
              orphan, ring, srv, fn>>

\* GatewayService.SubmitJob (part_005:134-191): the tenant is resolved, then
\* the image URI is validated, then the call goes to the worker of the
\* generated job id
GatewaySubmitJob(header, image, gatewayJobID, ok, initial) ==
  LET t == resolveTenant(tenants, header)
      w == GetWorkerIP(submitKey(t.id, gatewayJobID))
      r == workerSubmitJob(jobs, w, t.id, gatewayJobID, image, ok, initial)
  IN /\ tenants' = t.tenants
     /\ IF t.code # "ok"
        THEN /\ rpc' = [NoRpc EXCEPT !.via = "gateway", !.op = "SubmitJob",
                                     !.code = t.code]
             /\ UNCHANGED jobs
        ELSE IF image = ""
        THEN /\ rpc' = [NoRpc EXCEPT !.via = "gateway", !.op = "SubmitJob",
                                     !.tenant = t.id,
                                     !.code = "invalid_argument"]
             /\ UNCHANGED jobs
        ELSE /\ rpc' = [via |-> "gateway", op |-> "SubmitJob",
                        tenant |-> t.id, jobId |-> gatewayJobID,
                        code |-> wrapped(r.code), worker |-> w,
                        out |-> r.out]
             /\ jobs' = r.jobs
     /\ FleetUnchanged

\* GatewayService.ListJobs (part_005:193-219): answered from the store
GatewayListJobs(header) ==
  LET t == resolveTenant(tenants, header)
  IN /\ tenants' = t.tenants
     /\ rpc' = IF t.code # "ok"
               THEN [NoRpc EXCEPT !.via = "gateway", !.op = "ListJobs",
                                  !.code = t.code]
               ELSE [NoRpc EXCEPT !.via = "gateway", !.op = "ListJobs",
                                  !.tenant = t.id, !.code = "ok",
                                  !.out = ListJobs(jobs, t.id)]
     /\ UNCHANGED jobs
     /\ FleetUnchanged

\* GatewayService.CancelJob, DeleteJob and GetJob (part_005:221-318): the
\* job id is validated, then the tenant is resolved, then the call goes to
\* the worker of the job id
GatewayFollowUp(op, header, jobID) ==
  IF jobID = ""
  THEN /\ rpc' = [NoRpc EXCEPT !.via = "gateway", !.op = op,
                               !.jobId = jobID, !.code = "invalid_argument"]
       /\ UNCHANGED <<tenants, jobs>>
       /\ FleetUnchanged
  ELSE LET t == resolveTenant(tenants, header)
           w == GetWorkerIP(followUpKey(t.id, jobID))
           r == workerFollowUp(op, jobs, t.id, jobID)
       IN /\ tenants' = t.tenants
          /\ IF t.code # "ok"
             THEN /\ rpc' = [NoRpc EXCEPT !.via = "gateway", !.op = op,
                                          !.jobId = jobID, !.code = t.code]
                  /\ UNCHANGED jobs
             ELSE /\ rpc' = [via |-> "gateway", op |-> op, tenant |-> t.id,
                             jobId |-> jobID, code |-> wrapped(r.code),
                             worker |-> w, out |-> r.out]
                  /\ jobs' = r.jobs
          /\ FleetUnchanged

\* a caller reaches a worker without the gateway; every worker answers the
\* same way from the store.  Jobs are created through the gateway: a direct
\* SubmitJob is one that lacks the tenant header, and it stores no owner.
DirectCall(op, tenantID, jobID) ==
  /\ op = "SubmitJob" => tenantID = ""
  /\ LET r == CASE op = "SubmitJob" ->
                     workerSubmitJob(jobs, Null, tenantID, jobID, "img", TRUE,
                                     JobStatusUnknown)
                [] op = "ListJobs" -> workerListJobs(jobs, tenantID)
                [] OTHER -> workerFollowUp(op, jobs, tenantID, jobID)
     IN /\ rpc' = [via |-> "worker", op |-> op, tenant |-> tenantID,
                   jobId |-> jobID, code |-> r.code, worker |-> Null,
                   out |-> r.out]
        /\ jobs' = r.jobs
  /\ UNCHANGED tenants
  /\ FleetUnchanged

\* rings over the worker set on which the tenants hash to different workers
Rings == {r \in [Keys -> Workers] : r["A"] # r["B"]}

\* the gateway with a fixed worker set and any ring over it
InitGateway ==
  /\ FleetStart(Workers)
  /\ Quiet
  /\ ring \in Rings

NextGateway ==
  \/ \E header \in Headers, image \in {"", "img"}, id \in JobIds :
       GatewaySubmitJob(header, image, id, TRUE, JobStatusUnknown)
  \/ \E header \in Headers : GatewayListJobs(header)
  \/ \E op \in RpcNames \ {"SubmitJob", "ListJobs"}, header \in Headers,
        id \in JobIds \cup {""} :
       GatewayFollowUp(op, header, id)
  \/ \E op \in RpcNames, t \in Users \cup {""}, id \in JobIds \cup {""} :
       DirectCall(op, t, id)

SpecGateway == InitGateway /\ [][NextGateway]_vars

\* ------------------------------------------- the gateway of handlers.go
\* values of time.Now().UnixNano() at a submission
Nanos == {1}

\* fmt.Sprintf("%s-%d", tenantId, time.Now().UnixNano()) (handlers.go:74)
handlersSubmitKey(tenantId, nano) == tenantId \o "-" \o ToString(nano)

\* the routing keys of handlers.go: tenant ids, with and without a time
HandlersKeys == Users \cup {handlersSubmitKey(u, n) : u \in Users, n \in Nanos}

\* the routing key of CancelJob and DeleteJob (handlers.go:175, 222)
handlersFollowUpKey(tenantId, jobId) == tenantId

\* GatewayService.SubmitJob of handlers.go (handlers.go:47-109): the tenant
\* is resolved, the image URI is validated, and the call goes without a job
\* id to the worker of the tenant id and the time; the worker draws the job
\* id (part_005:468-470, serve.go:240)
HandlersSubmitJob(header, image, nano, workerJobID) ==
  LET t == resolveTenant(tenants, header)
      w == GetWorkerIP(handlersSubmitKey(t.id, nano))
      r == workerSubmitJob(jobs, w, t.id, workerJobID, image, TRUE,
                           JobStatusUnknown)
  IN /\ tenants' = t.tenants
     /\ IF t.code # "ok"
        THEN /\ rpc' = [NoRpc EXCEPT !.via = "gateway", !.op = "SubmitJob",
                                     !.code = t.code]
             /\ UNCHANGED jobs
        ELSE IF image = ""
        THEN /\ rpc' = [NoRpc EXCEPT !.via = "gateway", !.op = "SubmitJob",
                                     !.tenant = t.id,
                                     !.code = "invalid_argument"]
             /\ UNCHANGED jobs
        ELSE /\ rpc' = [via |-> "gateway", op |-> "SubmitJob",
                        tenant |-> t.id, jobId |-> workerJobID,
                        code |-> wrapped(r.code), worker |-> w,
                        out |-> r.out]
             /\ jobs' = r.jobs
     /\ FleetUnchanged

\* GatewayService.CancelJob and DeleteJob of handlers.go (handlers.go:
\* 153-245): the tenant is resolved, the job id is validated, and the call
\* goes to the worker of the tenant id
HandlersFollowUp(op, header, jobID) ==
  LET t == resolveTenant(tenants, header)
      w == GetWorkerIP(handlersFollowUpKey(t.id, jobID))
      r == workerFollowUp(op, jobs, t.id, jobID)
  IN /\ tenants' = t.tenants
     /\ IF t.code # "ok"
        THEN /\ rpc' = [NoRpc EXCEPT !.via = "gateway", !.op = op,
                                     !.jobId = jobID, !.code = t.code]
             /\ UNCHANGED jobs
        ELSE IF jobID = ""
        THEN /\ rpc' = [NoRpc EXCEPT !.via = "gateway", !.op = op,
                                     !.tenant = t.id, !.jobId = jobID,
                                     !.code = "invalid_argument"]
             /\ UNCHANGED jobs
        ELSE /\ rpc' = [via |-> "gateway", op |-> op, tenant |-> t.id,
                        jobId |-> jobID, code |-> wrapped(r.code),
                        worker |-> w, out |-> r.out]
             /\ jobs' = r.jobs
     /\ FleetUnchanged

\* the gateway of handlers.go with a fixed worker set and any ring over it
InitHandlers ==
  /\ FleetStart(Workers)
  /\ Quiet
  /\ ring \in [HandlersKeys -> Workers]

NextHandlers ==
  \/ \E header \in Headers, image \in {"", "img"}, nano \in Nanos,
        id \in JobIds :
       HandlersSubmitJob(header, image, nano, id)
  \/ \E op \in {"CancelJob", "DeleteJob"}, header \in Headers,
        id \in JobIds \cup {""} :
       HandlersFollowUp(op, header, id)

SpecHandlers == InitHandlers /\ [][NextHandlers]_vars

\* ---------------------------------------------------------------- classifier
\* tier thresholds (classifier.go:82-96)
SimpleCPUMillisMax == 500
SimpleMemoryMiBMax == 512
SimpleDurationSecMax == 600
MediumCPUMillisMax == 4000
MediumMemoryMiBMax == 8192
MediumDurationSecMax == 3600

\* ComplexityLevel.String and AssignedService.String (classifier.go:30-68)
ComplexitySimple == "SIMPLE"
ComplexityMedium == "MEDIUM"
ComplexityComplex == "COMPLEX"
AssignedServiceCloudTasks == "CLOUD_TASKS"
AssignedServiceCloudRunJob == "CLOUD_RUN_JOB"
AssignedServiceCloudBatch == "CLOUD_BATCH"

\* a comparison that counts the threshold itself as exceeded
reachesThreshold(value, max) == value > 0 /\ value >= max

\* exceedsThreshold (classifier.go:185-187)
exceedsThreshold(value, max) == value > 0 /\ value > max

\* a decision of the lowest tier that gives no reason
noReason == ""

\* the reason of the lowest tier (classifier.go:179)
simpleReason == "no machine type, resources within simple thresholds"

\* a nil pointer is the empty tuple, a pointer to v is <<v>>
Nil == <<>>

\* the getters of the request (classifier.go:112-118): the fields of the
\* override, zero when the request carries none
GetCpuMillis(req) ==
  IF req.ResourceOverride = Nil THEN 0 ELSE req.ResourceOverride[1].CpuMillis

GetMemoryMib(req) ==
  IF req.ResourceOverride = Nil THEN 0 ELSE req.ResourceOverride[1].MemoryMib

GetMaxRunDurationSeconds(req) ==
  IF req.ResourceOverride = Nil THEN 0
  ELSE req.ResourceOverride[1].MaxRunDurationSeconds

RoutingDecision(complexity, service, reason) ==
  [Complexity |-> complexity, AssignedService |-> service, Reason |-> reason]

\* EvaluateJobComplexity (classifier.go:110-181)
EvaluateJobComplexity(req) ==
  LET cpuMillis == GetCpuMillis(req)
      memoryMiB == GetMemoryMib(req)
      durationSec == GetMaxRunDurationSeconds(req)
      machineType == req.MachineType
  IN IF machineType # ""
     THEN RoutingDecision(ComplexityComplex, AssignedServiceCloudBatch,
                          "explicit machine_type requested: " \o machineType)
     ELSE IF exceedsThreshold(cpuMillis, MediumCPUMillisMax)
     THEN RoutingDecision(ComplexityComplex, AssignedServiceCloudBatch,
                          "cpu_millis exceeds medium threshold")
     ELSE IF exceedsThreshold(memoryMiB, MediumMemoryMiBMax)
     THEN RoutingDecision(ComplexityComplex, AssignedServiceCloudBatch,
                          "memory_mib exceeds medium threshold")
     ELSE IF exceedsThreshold(durationSec, MediumDurationSecMax)
     THEN RoutingDecision(ComplexityComplex, AssignedServiceCloudBatch,
                          "max_run_duration_seconds exceeds medium threshold")
     ELSE IF exceedsThreshold(cpuMillis, SimpleCPUMillisMax)
     THEN RoutingDecision(ComplexityMedium, AssignedServiceCloudRunJob,
                          "cpu_millis exceeds simple threshold")
     ELSE IF exceedsThreshold(memoryMiB, SimpleMemoryMiBMax)
     THEN RoutingDecision(ComplexityMedium, AssignedServiceCloudRunJob,
                          "memory_mib exceeds simple threshold")
     ELSE IF exceedsThreshold(durationSec, SimpleDurationSecMax)
     THEN RoutingDecision(ComplexityMedium, AssignedServiceCloudRunJob,
                          "max_run_duration_seconds exceeds simple threshold")
     ELSE RoutingDecision(ComplexitySimple, AssignedServiceCloudTasks,
                          simpleReason)

\* calls of the classifier with one request
MaxCalls == 2

\* the values of an override field: negative, unspecified, and the values at
\* and just above the two thresholds of the field
AroundThresholds(simpleMax, mediumMax) ==
  {-1, 0, simpleMax, simpleMax + 1, mediumMax, mediumMax + 1}

\* the submissions the classifier is called with: with and without a machine
\* type, with and without an override
ClassifierRequests ==
  [MachineType : {"", "e2-standard-4"},
   ResourceOverride :
     {Nil} \cup
     {<<o>> : o \in
        [CpuMillis : AroundThresholds(SimpleCPUMillisMax, MediumCPUMillisMax),
         MemoryMib : AroundThresholds(SimpleMemoryMiBMax, MediumMemoryMiBMax),
         MaxRunDurationSeconds :
           AroundThresholds(SimpleDurationSecMax, MediumDurationSecMax)]}]

InitClassifier ==
  /\ FleetStart(Workers)
  /\ tenants = {}
  /\ jobs = {}
  /\ ring = [k \in Keys |-> "W1"]
  /\ rpc = NoRpc
  /\ srv = [w \in Workers |-> "serving"]
  /\ fn \in [name : {"EvaluateJobComplexity"}, in : ClassifierRequests,
             out : {<<>>}]

\* router.EvaluateJobComplexity(req.Msg) (part_005:157): one more call with
\* the request
Classify ==
  /\ fn.name = "EvaluateJobComplexity"
  /\ Len(fn.out) < MaxCalls
  /\ fn' = [fn EXCEPT !.out = Append(@, EvaluateJobComplexity(fn.in))]
  /\ UNCHANGED <<row, log, prov, alive, pollers, pol, timer, h, last, crashes,
                 orphan, tenants, jobs, ring, rpc, srv>>

NextClassifier == Classify

SpecClassifier == InitClassifier /\ [][NextClassifier]_vars

\* ---------------------------------------------------------------- resolver
\* a ResourceProfile, a ResourceOverride or the ResourceRequirements
\* returned, all fields v (job_config.go:19-23, 82-86)
Resources(cpu, memory, duration) ==
  [CPUMillis |-> cpu, MemoryMiB |-> memory, MaxRunDurationSeconds |-> duration]

\* GetResourceRequirements (job_config.go:42-60)
GetResourceRequirements(c, profileName) ==
  IF profileName # "" /\ profileName \in DOMAIN c.ResourceProfiles
  THEN c.ResourceProfiles[profileName]
  ELSE c.DefaultResources

\* GetMachineTypeResources (job_config.go:64-78)
GetMachineTypeResources(c, machineType) ==
  IF machineType = "" THEN Nil
  ELSE IF machineType \in DOMAIN c.MachineTypeResources
  THEN <<c.MachineTypeResources[machineType]>>
  ELSE Nil

\* a field that takes the override only where the base has none
overrideFillsGap(base, over) == IF base # 0 THEN base ELSE over

\* one field of the result (job_config.go:114-122)
overridden(base, over) == IF over # 0 THEN over ELSE base

\* ResolveResources (job_config.go:95-125)
ResolveResources(c, machineType, profileName, override) ==
  LET mtResources == IF machineType # ""
                     THEN GetMachineTypeResources(c, machineType) ELSE Nil
      base == IF mtResources # Nil THEN mtResources[1]
              ELSE GetResourceRequirements(c, profileName)
  IN IF override = Nil THEN base
     ELSE Resources(
            overridden(base.CPUMillis, override[1].CPUMillis),
            overridden(base.MemoryMiB, override[1].MemoryMiB),
            overridden(base.MaxRunDurationSeconds,
                       override[1].MaxRunDurationSeconds))

\* resource triples whose fields are each v or left at zero
Triples(v) == {Resources(a, b, d) : a \in {0, v}, b \in {0, v}, d \in {0, v}}

\* a map of the configuration with the one key k, or without it
MapsOf(k, profiles) ==
  {<<>>} \cup {[n \in {k} |-> p] : p \in profiles}

\* configurations: the default resources, with or without the preset
\* "small" and with or without resources for the machine type "e2-medium"
JobConfigFiles ==
  [DefaultResources : Triples(1000),
   ResourceProfiles : MapsOf("small", Triples(250)),
   MachineTypeResources : MapsOf("e2-medium", Triples(2000))]

\* the calls of ResolveResources
ResolverCalls ==
  [c : JobConfigFiles, machineType : {"", "e2-medium"},
   profileName : {"", "small"},
   override : {Nil} \cup {<<o>> : o \in Triples(500)}]

InitResolver ==
  /\ FleetStart(Workers)
  /\ tenants = {}
  /\ jobs = {}
  /\ ring = [k \in Keys |-> "W1"]
  /\ rpc = NoRpc
  /\ srv = [w \in Workers |-> "serving"]
  /\ fn \in [name : {"ResolveResources"}, in : ResolverCalls, out : {Nil}]

\* jobConfig.ResolveResources(machineType, profileName, override)
\* (part_005:524-541)
Resolve ==
  /\ fn.name = "ResolveResources"
  /\ fn.out = Nil
  /\ fn' = [fn EXCEPT !.out = <<ResolveResources(fn.in.c, fn.in.machineType,
                                                fn.in.profileName,
                                                fn.in.override)>>]
  /\ UNCHANGED <<row, log, prov, alive, pollers, pol, timer, h, last, crashes,
                 orphan, tenants, jobs, ring, rpc, srv>>

NextResolver == Resolve

SpecResolver == InitResolver /\ [][NextResolver]_vars

\* ------------------------------------------------------- provider job ids
\* strings are sequences of characters; the characters of the model: lower
\* and upper case letters, digits, the hyphen and one other character
LowerLetters == {"a", "e", "h", "j", "n"}
UpperLetters == {"A"}
Digits == {"0", "7"}
InputChars == {"a", "A", "7", "-", "_"}

\* strings.ToLower on one character
ToLowerChar(c) == IF c = "A" THEN "a" ELSE c

\* strings.ToLower
ToLower(s) == [i \in 1..Len(s) |-> ToLowerChar(s[i])]

\* strings.ReplaceAll(s, "-", "")
ReplaceAllHyphens(s) == SelectSeq(s, LAMBDA c : c # "-")

\* strings.TrimRight(s, "-")
RECURSIVE TrimRightHyphens(_)
TrimRightHyphens(s) ==
  IF s # <<>> /\ s[Len(s)] = "-" THEN TrimRightHyphens(SubSeq(s, 1, Len(s) - 1))
  ELSE s

\* strings.Repeat(c, n)
Repeat(c, n) == [i \in 1..n |-> c]

\* the strings over a set of characters of length at most n
StringsUpTo(chars, n) == UNION {[1..k -> chars] : k \in 0..n}

\* the sanitizing loop of generateProviderJobID (part_005:834-847): b is the
\* builder, prevHyphen its flag, s what is left of the lowercased name
RECURSIVE sanitizeLoop(_, _, _)
sanitizeLoop(b, prevHyphen, s) ==
  IF s = <<>> THEN b
  ELSE IF s[1] \in LowerLetters \cup Digits
       THEN sanitizeLoop(Append(b, s[1]), FALSE, Tail(s))
       ELSE IF ~prevHyphen /\ Len(b) > 0
            THEN sanitizeLoop(Append(b, "-"), TRUE, Tail(s))
            ELSE sanitizeLoop(b, prevHyphen, Tail(s))

\* the length of the short id and the provider's maximum (part_005:829, 858)
ShortIDLen == 8
ProviderIDMax == 64

\* what a call of generateProviderJobID does: it returns id, or it panics
Returned(id) == [panic |-> FALSE, id |-> id]
Panicked == [panic |-> TRUE, id |-> <<>>]

\* generateProviderJobID (part_005:828-863)
generateProviderJobID(name, jobID) ==
  IF Len(ReplaceAllHyphens(jobID)) < ShortIDLen THEN Panicked
  ELSE
    LET shortID == SubSeq(ReplaceAllHyphens(jobID), 1, ShortIDLen)
        trimmed == TrimRightHyphens(sanitizeLoop(<<>>, FALSE, ToLower(name)))
        lettered == IF Len(trimmed) = 0 \/ trimmed[1] \notin LowerLetters
                    THEN <<"j">> \o trimmed ELSE trimmed
        suffix == <<"-">> \o shortID
        maxNameLen == ProviderIDMax - Len(suffix)
        sanitized == IF Len(lettered) > maxNameLen
                     THEN TrimRightHyphens(SubSeq(lettered, 1, maxNameLen))
                     ELSE lettered
    IN IF name = <<>>
       THEN Returned(<<"j", "e", "n", "n", "a", "h", "-">> \o ToLower(shortID))
       ELSE Returned(sanitized \o suffix)

\* uuid.New().String(): 36 characters, lowercase hex digits in groups of
\* 8-4-4-4-12 joined by hyphens
UUIDOf(c) ==
  Repeat(c, 8) \o <<"-">> \o Repeat(c, 4) \o <<"-">> \o Repeat(c, 4)
    \o <<"-">> \o Repeat(c, 4) \o <<"-">> \o Repeat(c, 12)
UUIDs == {UUIDOf("a"), UUIDOf("7")}

\* the internal job id of SubmitJob (part_005:467-473): the request's job id
\* when it has one, else a fresh uuid
internalJobID(reqJobId, generated) ==
  IF reqJobId = <<>> THEN generated ELSE reqJobId

\* names of the request: short ones, and the same after a run of letters
\* that brings them to the provider's limit
MaxTail == 3
LongRun == ProviderIDMax - ShortIDLen - 2
RequestNames ==
  {pad \o t : pad \in {<<>>, Repeat("a", LongRun)},
              t \in StringsUpTo(InputChars, MaxTail)}

\* job ids of the request: none, a uuid of the gateway, or what a direct
\* caller of the worker sends
MaxIdHead == 2
RequestJobIds ==
  UUIDs \cup {hd \o Repeat("0", n) : hd \in StringsUpTo(InputChars, MaxIdHead),
                                     n \in {0, 6, 8}}

InitProviderID ==
  /\ FleetStart(Workers)
  /\ tenants = {}
  /\ jobs = {}
  /\ ring = [k \in Keys |-> "W1"]
  /\ rpc = NoRpc
  /\ srv = [w \in Workers |-> "serving"]
  /\ fn \in [name : {"generateProviderJobID"},
             in : [name : RequestNames, reqJobId : RequestJobIds,
                   generated : {UUIDOf("a")}],
             out : {Nil}]

\* providerJobID := generateProviderJobID(req.Msg.Name, internalJobID)
\* (part_005:467-478)
GenerateID ==
  /\ fn.name = "generateProviderJobID"
  /\ fn.out = Nil
  /\ fn' = [fn EXCEPT !.out =
              <<generateProviderJobID(fn.in.name,
                  internalJobID(fn.in.reqJobId, fn.in.generated))>>]
  /\ UNCHANGED <<row, log, prov, alive, pollers, pol, timer, h, last, crashes,
                 orphan, tenants, jobs, ring, rpc, srv>>

NextProviderID == GenerateID

SpecProviderID == InitProviderID /\ [][NextProviderID]_vars

\* ------------------------------------------------------- provider factory
\* provider names: the three of the switch, the empty name and another one
ProviderNames == {"gcp", "aws", "azure", "", "local"}

\* batch provider configurations of the environment (config.go:45-60)
ProviderConfigs ==
  [Provider : ProviderNames, ProjectID : {"", "proj"}, Region : {"", "asia"},
   ProviderOptions : [{"account_id", "subscription_id"} -> {"", "id"}]]

\* Config.Validate on the batch provider (config.go:92-118): TRUE when it
\* returns no error
Validate(c) ==
  CASE c.Provider = "gcp" -> c.ProjectID # "" /\ c.Region # ""
    [] c.Provider = "aws" ->
         c.Region # "" /\ c.ProviderOptions["account_id"] # ""
    [] c.Provider = "azure" ->
         c.Region # "" /\ c.ProviderOptions["subscription_id"] # ""
    [] OTHER -> FALSE

\* what a call of NewProvider does
ProviderBuilt == "provider"
ProviderError == "error"
ProviderPanic == "panic"

\* a constructor variable of the package (provider.go:244-248): nil until
\* its Register function has been called
constructor(registered, name, built) ==
  IF name \notin registered THEN ProviderPanic
  ELSE IF built THEN ProviderBuilt ELSE ProviderError

\* NewProvider (provider.go:230-241); registered are the providers whose
\* package the process imports, built is whether a registered constructor
\* succeeds
NewProvider(registered, c, built) ==
  CASE c.Provider = "gcp" -> constructor(registered, "gcp", built)
    [] c.Provider = "aws" -> constructor(registered, "aws", built)
    [] c.Provider = "azure" -> constructor(registered, "azure", built)
    [] OTHER -> ProviderError

\* the provider packages a process can import; the worker imports gcp
\* (serve.go:20)
Registrations == SUBSET {"gcp", "aws", "azure"}

InitFactory ==
  /\ FleetStart(Workers)
  /\ tenants = {}
  /\ jobs = {}
  /\ ring = [k \in Keys |-> "W1"]
  /\ rpc = NoRpc
  /\ srv = [w \in Workers |-> "serving"]
  /\ fn \in [name : {"NewProvider"},
             in : [config : ProviderConfigs, registered : Registrations,
                   built : BOOLEAN],
             out : {Nil}]

\* a process that validates a configuration and calls NewProvider with it
\* (config.go:84, serve.go:55, part_007:43)
CallNewProvider ==
  /\ fn.name = "NewProvider"
  /\ fn.out = Nil
  /\ fn' = [fn EXCEPT !.out =
              <<[valid |-> Validate(fn.in.config),
                 result |-> NewProvider(fn.in.registered, fn.in.config,
                                        fn.in.built)]>>]
  /\ UNCHANGED <<row, log, prov, alive, pollers, pol, timer, h, last, crashes,
                 orphan, tenants, jobs, ring, rpc, srv>>

NextFactory == CallNewProvider

SpecFactory == InitFactory /\ [][NextFactory]_vars

\* ---------------------------------------------------------------- claims
\* the poller in slot s of worker w makes its status write in this step and
\* the write changes the persisted status
PollerChangesStatus(w, s) ==
  /\ pol[w][s].pc = "write"
  /\ alive'[w]
  /\ pol'[w][s].pc # "write"
  /\ row'.status # row.status

\* C1: a poller writes the job's status only at a moment when its own worker
\* is the job's persisted owner-worker-id; a poller that renewed its lease
\* and lost ownership before its status write does not persist the status.
C1_PollerWritesOnlyAsOwner ==
  [][\A w \in Workers, s \in Slots :
       PollerChangesStatus(w, s) => row.owner = w]_vars

\* poller goroutines of the worker that is the persisted owner with a lease
\* that has not passed
OwningPollers ==
  {ws \in Workers \X Slots :
     /\ pol[ws[1]][ws[2]].pc # "free"
     /\ row.owner = ws[1]
     /\ row.lease # NullTime
     /\ row.lease[1] >= 0}

\* C2: for an active job at most one running poller in the fleet belongs to
\* the worker that is the persisted owner with an unexpired lease.
C2_AtMostOneOwningPoller ==
  (row.present /\ ~isTerminalStatus(row.status))
    => Cardinality(OwningPollers) <= 1

\* position of a status on the path PENDING, SCHEDULED, RUNNING, terminal
Rank(status) ==
  CASE status = JobStatusPending -> 0
    [] status = JobStatusScheduled -> 1
    [] status = JobStatusRunning -> 2
    [] OTHER -> 3

\* the persisted status changes in this step
StatusChanges == row.present /\ row'.present /\ row'.status # row.status

\* C3: the persisted status only moves forward along PENDING, SCHEDULED,
\* RUNNING, {COMPLETED, FAILED, CANCELLED}, never backward and never out of
\* a terminal status.
C3_StatusMovesForward ==
  [][StatusChanges =>
       (~isTerminalStatus(row.status) /\ Rank(row'.status) > Rank(row.status))]_vars

\* C4: once the persisted status is COMPLETED, FAILED or CANCELLED no later
\* operation changes it.
C4_TerminalIsFinal ==
  [][(row.present /\ isTerminalStatus(row.status) /\ row'.present)
       => row'.status = row.status]_vars

\* worker w's call of TryClaimOrRenewJobLease returns in this step; the row
\* before the step is the row its transaction read
LeaseReturns(w) == last.txn[w].pc = "open" /\ last'.txn[w].pc = "idle"

Unexpired(r) == r.lease # NullTime /\ r.lease[1] >= 0

Active(r) == r.present /\ ~isTerminalStatus(r.status)

\* an active job owned by w2 with an unexpired lease and preferred by w1
OwnedAwayFrom(r, w1, w2) ==
  Active(r) /\ r.owner = w2 /\ Unexpired(r) /\ r.preferred = w1

\* an active job its preferred worker w1 owns with an unexpired lease
HandedBack(r, w1) ==
  Active(r) /\ r.owner = w1 /\ Unexpired(r) /\ r.preferred = w1

\* C5: handback.  When an active job is owned by W2 with an unexpired lease
\* and preferred by W1, W1's lease call returns owned = true and makes W1 the
\* owner; while W1 then holds an unexpired lease, no lease call changes the
\* owner and every call W2 begins returns owned = false.
C5_Handback ==
  [][\A w1 \in Workers : \A w2 \in Workers \ {w1} :
       /\ (LeaseReturns(w1) /\ OwnedAwayFrom(row, w1, w2))
            => (last'.ret.owned /\ row'.owner = w1)
       /\ HandedBack(row, w1) => (row'.present => row'.owner = w1)
       /\ (LeaseReturns(w2) /\ last.txn[w2].locked /\ HandedBack(row, w1))
            => (~last'.ret.owned /\ row' = row)]_vars

\* W1 has taken the job back from W2, whose lease had not expired, and W2
\* has begun its next lease call
C5_Witness ==
  /\ last.ret.w = "W1"
  /\ last.ret.owned
  /\ OwnedAwayFrom(last.ret.pre, "W1", "W2")
  /\ HandedBack(row, "W1")
  /\ last.txn["W2"].pc = "open"
  /\ last.txn["W2"].locked

\* the worker that took the job over from a stopped owner in this step
Takeover(w) ==
  /\ Orphaned(row, alive)
  /\ row'.present
  /\ row'.owner = w
  /\ row.owner # w
  /\ alive'[w]

C7_TerminalPersisted ==
  (row.present /\ row.path # Null
     /\ isTerminalStatus(mapBatchStatusToDBStatus(prov)))
    ~> (row.present /\ isTerminalStatus(row.status))

\* the provider's job has ended while the job's owner is stopped and no
\* poller of it is running anywhere
C7_Witness ==
  /\ ListActiveJobs(row)
  /\ isTerminalStatus(mapBatchStatusToDBStatus(prov))
  /\ row.owner \in Workers
  /\ ~alive[row.owner]
  /\ \A w \in Workers : Running(w) = {}

\* C8: for every change of the persisted status from S1 to S2 a transition
\* record with from = S1 and to = S2 exists once the operation that made the
\* change has finished (CancelJob finishes with its record step).
C8_EveryChangeRecorded ==
  [][(StatusChanges /\ ~(h'.kind = "cancel" /\ h'.pc = "record"))
       => <<row.status, row'.status>> \in log']_vars

\* C9: a successful get-status that answers UNKNOWN changes neither the
\* persisted nor the cached status: a poller has a changed status to write
\* only when the provider answered the canonical state of its job.
C9_UnknownIsNoTransition ==
  [][\A w \in Workers, s \in Slots :
       (pol[w][s].pc = "renewed" /\ alive'[w] /\ pol'[w][s].pc = "write")
         => pol'[w][s].cur = prov]_vars

\* the four predicates of the lease operation on the row r for worker w
CanClaim(r, w) ==
  \/ r.owner = w
  \/ r.lease = NullTime \/ r.lease[1] < 0
  \/ r.owner = Null \/ r.owner = ""
  \/ (r.preferred = w /\ r.owner # w)

\* C10: a lease call by w with expiry e returns owned = true exactly when
\* the job's status is not terminal and is-owner, lease-expired, is-unowned
\* or preferred-takeover holds of the row; and when it returns owned = true
\* the row has owner = w, lease-expires-at = e and last-heartbeat-at = now.
C10_ClaimContract ==
  [][\A w \in Workers :
       LeaseReturns(w) =>
         /\ last'.ret.owned <=> (Active(row) /\ CanClaim(row, w))
         /\ last'.ret.owned =>
              /\ row'.owner = w
              /\ row'.lease = <<last'.ret.e>>
              /\ row'.hb = <<0>>]_vars

\* C11: a lease call never changes the job's status, preferred-worker-id or
\* cloud-resource-path, and a call that returns owned = false, with or
\* without an error, leaves every field of the row as it was.
C11_ClaimFrame ==
  [][/\ row'.status = row.status
     /\ row'.preferred = row.preferred
     /\ row'.path = row.path
     /\ row'.present = row.present
     /\ \A w \in Workers :
          ((LeaseReturns(w) \/ last'.ret.err) /\ ~last'.ret.owned)
            => row' = row]_vars

\* W2's call has returned owned = false on an active job W1 holds with an
\* unexpired lease, and the row is the row the call read
C11_Witness ==
  /\ last.ret.w = "W2"
  /\ ~last.ret.owned
  /\ ~last.ret.err
  /\ Active(row)
  /\ HeldByOther(row, "W2")
  /\ row = last.ret.pre

\* C12: when two workers, neither the owner, call concurrently on an active
\* job whose lease has expired, at most one of the two calls returns
\* owned = true: after the first has returned owned = true, the call of the
\* other, in progress at that moment, returns owned = false.  Stated for
\* two workers neither of which is the preferred worker, whose takeover of
\* an unexpired lease is the handback.
C12_OneClaimWins ==
  [][\A w1 \in Workers : \A w2 \in Workers \ {w1} :
       (/\ LeaseReturns(w2)
        /\ last.ret.w = w1
        /\ last.ret.owned
        /\ w2 \in last.ret.open
        /\ Active(last.ret.pre)
        /\ ~Unexpired(last.ret.pre)
        /\ last.ret.pre.owner \notin {w1, w2}
        /\ last.ret.pre.preferred \notin {w1, w2})
         => ~last'.ret.owned]_vars

\* C13: a lease call by the worker that owns the job with an unexpired
\* lease returns owned = true; called twice in a row with expiries e1 and
\* e2 and no other write between, it returns owned = true both times and
\* lease-expires-at is e2 afterwards.
C13_OwnerRenews ==
  [][\A w \in Workers :
       /\ (LeaseReturns(w) /\ row.present /\ row.owner = w /\ Unexpired(row))
            => last'.ret.owned
       /\ (/\ LeaseReturns(w)
           /\ last.ret.w = w
           /\ last.ret.owned
           /\ last.ret.pre.owner = w
           /\ Unexpired(last.ret.pre)
           /\ row = TryClaimOrRenewJobLease(last.ret.pre, w, last.ret.e).row)
            => (last'.ret.owned /\ row'.lease = <<last'.ret.e>>)]_vars

\* C13 as it holds: the same for a job whose status is not terminal.
C13_OwnerRenewsActive ==
  [][\A w \in Workers :
       /\ (LeaseReturns(w) /\ Active(row) /\ row.owner = w /\ Unexpired(row))
            => last'.ret.owned
       /\ (/\ LeaseReturns(w)
           /\ last.ret.w = w
           /\ last.ret.owned
           /\ Active(last.ret.pre)
           /\ last.ret.pre.owner = w
           /\ Unexpired(last.ret.pre)
           /\ row = TryClaimOrRenewJobLease(last.ret.pre, w, last.ret.e).row)
            => (last'.ret.owned /\ row'.lease = <<last'.ret.e>>)]_vars

\* W1, owner with an unexpired lease, has renewed twice in a row, the second
\* time with an expiry other than the first
C13_Witness ==
  /\ last.ret.w = "W1"
  /\ last.ret.owned
  /\ Active(last.ret.pre)
  /\ last.ret.pre.owner = "W1"
  /\ last.ret.pre.hb = <<0>>
  /\ Unexpired(last.ret.pre)
  /\ last.ret.pre.lease # <<last.ret.e>>
  /\ row.lease = <<last.ret.e>>
  /\ row.owner = "W1"

\* C14: on one worker at most one poller goroutine runs for the job at any
\* instant, whatever SubmitJob, the reconciler, CancelJob and exiting
\* pollers do to the poller map.
C14_OnePollerPerWorker ==
  \A w \in Workers : Cardinality(Running(w)) <= 1

\* the handler in flight moves in this step
HandlerSteps == h' # h

\* C16: CancelJob goes on to the provider and the store only when the
\* status it read is PENDING, SCHEDULED or RUNNING; on a job that is
\* COMPLETED, FAILED or CANCELLED it returns invalid-argument and changes
\* neither the row, the transition log, the provider's job nor the poller
\* map.
C16_CancelOnlyCancellable ==
  [][/\ (h'.kind = "cancel" /\ h'.pc \in {"provider", "write", "record"})
          => h'.seen \in {JobStatusPending, JobStatusScheduled,
                          JobStatusRunning}
     /\ (h.kind # "cancel" /\ h'.kind = "cancel"
          /\ row.status \in {JobStatusCompleted, JobStatusFailed,
                              JobStatusCancelled})
          => (h'.pc = "invalid" /\ UNCHANGED <<row, log, prov, pollers, pol>>)
     /\ (h.kind = "cancel" /\ h.pc = "invalid" /\ HandlerSteps)
          => (h' = NoHandler /\ UNCHANGED <<row, log, prov, pollers, pol>>)]_vars

\* CancelJob is returning invalid-argument for a job cancelled before
C16_Witness ==
  /\ h.kind = "cancel"
  /\ h.pc = "invalid"
  /\ h.seen = JobStatusCancelled
  /\ row.status = JobStatusCancelled
  /\ row.path # Null

Persisted(initial) ==
  IF initial \in {"", JobStatusUnknown} THEN JobStatusRunning ELSE initial

\* C18: after a successful provider submit SubmitJob writes the status and
\* the cloud-resource-path in one write: the path becomes non-null only in
\* that write, together with the provider's initial status (RUNNING for
\* UNKNOWN or empty), and a row without a path has the status of a job not
\* submitted.
C18_StatusAndPathTogether ==
  [][/\ (h.kind = "submit" /\ h.pc = "submitted" /\ HandlerSteps)
          => \/ row' = row /\ h'.pc = "internal"
             \/ /\ row'.path = CloudPath
                /\ row'.status = Persisted(h.seen)
                /\ h' = NoHandler
     /\ (row'.present /\ row'.path # Null /\ row.path = Null)
          => (h.kind = "submit" /\ h.pc = "submitted"
              /\ row'.status = Persisted(h.seen))
     /\ (row'.present /\ row'.path = Null)
          => row'.status \in {JobStatusPending, JobStatusFailed}]_vars

\* SubmitJob has stored RUNNING and the path for a provider job, queued at
\* the provider, whose initial status was UNKNOWN
C18_Witness ==
  /\ h = NoHandler
  /\ row.path = CloudPath
  /\ row.status = JobStatusRunning
  /\ prov = JobStatusPending
  /\ row.hb = <<0>>
  /\ pollers[RoutedWorker] # 0

\* C19: the cloud-resource-path is null until SubmitJob persists a
\* successful provider submit, and once it is non-null no later write to
\* the row changes it.
C19_PathSetOnce ==
  [][/\ (row.present /\ row'.present /\ row.path # Null)
          => row'.path = row.path
     /\ (row'.present /\ row'.path # Null /\ row.path = Null)
          => (h.kind = "submit" /\ h.pc = "submitted" /\ h' = NoHandler)
     /\ (~row.present /\ row'.present) => row'.path = Null]_vars

\* a job with its path after a poller's status write, a renewal at a later
\* time and CancelJob
C19_Witness ==
  /\ row.path = CloudPath
  /\ row.status = JobStatusCancelled
  /\ prov = JobStatusCancelled
  /\ row.lease = <<LeaseTTL>>
  /\ h = NoHandler

\* C20: a SubmitJob for a key that has a row creates no row and no provider
\* job: it returns an internal error without a provider call and leaves
\* the row of the first call, the provider's job and the pollers as they
\* are.
C20_SecondSubmitRejected ==
  [][/\ (h.kind # "submit" /\ h'.kind = "submit" /\ row.present)
          => (h'.pc = "internal"
              /\ UNCHANGED <<row, log, prov, pollers, pol>>)
     /\ (h.kind = "submit" /\ h.pc = "internal" /\ HandlerSteps)
          => (h' = NoHandler
              /\ UNCHANGED <<row, log, prov, pollers, pol>>)]_vars

\* a second SubmitJob for a submitted job is returning its error
C20_Witness ==
  /\ h.kind = "submit"
  /\ h.pc = "internal"
  /\ h.seen = "InsertJobFull"
  /\ row.path = CloudPath
  /\ prov \in CanonicalStatuses

C21_DeleteAbsentSucceeds ==
  [][(/\ h = NoHandler
      /\ h'.kind = "delete"
      /\ ~row.present
      /\ prov = "deleted")
       => (/\ h'.pc # "notfound"
           /\ UNCHANGED <<row, log, prov, pollers, pol>>)]_vars

\* C22: the status persisted in the Jobs row is always one of the six
\* canonical statuses: neither SubmitJob nor a poller persists UNKNOWN, the
\* empty string or any other value.
C22_StatusCanonical ==
  row.present => row.status \in CanonicalStatuses

\* SubmitJob has returned for a job the provider holds as PENDING and whose
\* row says RUNNING: the provider reported no usable initial status
C22_Witness ==
  /\ h = NoHandler
  /\ row.present
  /\ row.path = CloudPath
  /\ row.status = JobStatusRunning
  /\ prov = JobStatusPending
  /\ \E w \in Workers, s \in Slots : pol[w][s].pc = "write"

\* C23: a call that is answered with invalid-argument (empty image URI on
\* SubmitJob, empty job id on CancelJob, DeleteJob or GetJob, missing tenant
\* id at the worker, uncancellable status) or with unauthenticated (missing
\* OAuth headers at the gateway) changes no stored state: no tenant and no
\* job is created or modified, and the gateway forwards it to no worker.
C23_RejectionChangesNothing ==
  [][rpc'.code \in {"invalid_argument", "unauthenticated"}
       => (/\ tenants' = tenants
           /\ jobs' = jobs
           /\ rpc'.worker = Null)]_vars

\* the gateway forwards a follow-up call in this step
ForwardsFollowUp ==
  /\ rpc'.via = "gateway"
  /\ rpc'.op \in {"CancelJob", "DeleteJob", "GetJob"}
  /\ rpc'.worker # Null

\* C24: with a fixed worker set and a deterministic router, the gateway
\* forwards CancelJob, DeleteJob and GetJob for a job to the worker that
\* served the SubmitJob which created the job: SubmitJob is routed by the
\* generated job id, and that id is the one stored and returned.
C24_FollowUpReachesSubmitWorker ==
  [][/\ ForwardsFollowUp
          => \A j \in JobsOf(jobs, rpc'.tenant, rpc'.jobId) :
               rpc'.worker = j.owner
     /\ (rpc'.via = "gateway" /\ rpc'.op = "SubmitJob" /\ rpc'.code = "ok")
          => \E j \in JobsOf(jobs', rpc'.tenant, rpc'.jobId) :
               /\ j.owner = rpc'.worker
               /\ j \in rpc'.out
               /\ j \notin jobs]_vars

\* the rows of the Jobs relation that belong to a tenant other than t
RowsOfOthers(js, t) == {j \in js : j.tenant # t}

\* C25: a call made for tenant A, through the gateway or at a worker,
\* returns only rows of A and changes no row of another tenant, whatever
\* other tenants insert or delete in between and also when the same job id
\* exists under both tenants; a call without a tenant changes no row.
C25_TenantIsolation ==
  [][/\ \A j \in rpc'.out : j.tenant = rpc'.tenant
     /\ RowsOfOthers(jobs', rpc'.tenant) = RowsOfOthers(jobs, rpc'.tenant)
     /\ rpc'.tenant \notin Users => jobs' = jobs]_vars

\* tenant A has listed its jobs and got one whose job id tenant B also
\* uses, after B cancelled its own
C25_Witness ==
  /\ rpc.op = "ListJobs"
  /\ rpc.tenant = "A"
  /\ \E a \in rpc.out, b \in jobs :
       /\ b.tenant = "B"
       /\ b.id = a.id
       /\ a.status = JobStatusRunning
       /\ b.status = JobStatusCancelled

\* C26: on graceful shutdown the worker first stops accepting RPCs and only
\* then signals its pollers, so that once the pollers are signalled no
\* poller is started on the worker by a SubmitJob in flight or by a
\* reconciler scan, and after the shutdown no poller is left running.
C26_NoPollerAfterStop ==
  \A w \in Workers :
    /\ srv[w] \in {"stopped", "closed"} => pollers[w] = 0
    /\ srv[w] = "down" => Running(w) = {}

\* the tier the four rules give a request, by the numbers of the rules
TierOf(machineType, cpu, memory, duration) ==
  IF machineType # "" THEN ComplexityComplex
  ELSE IF cpu > 4000 \/ memory > 8192 \/ duration > 3600
  THEN ComplexityComplex
  ELSE IF cpu > 500 \/ memory > 512 \/ duration > 600
  THEN ComplexityMedium
  ELSE ComplexitySimple

\* the service that serves a tier
ServiceOf(tier) ==
  CASE tier = ComplexityComplex -> AssignedServiceCloudBatch
    [] tier = ComplexityMedium -> AssignedServiceCloudRunJob
    [] tier = ComplexitySimple -> AssignedServiceCloudTasks

\* C27: EvaluateJobComplexity returns COMPLEX and the heavy service when the
\* machine type is non-empty; otherwise COMPLEX when cpu > 4000, memory >
\* 8192 or duration > 3600; otherwise MEDIUM when cpu > 500, memory > 512 or
\* duration > 600; otherwise SIMPLE and the light service.  Values at the
\* thresholds stay in the lower tier, and zero, negative or absent override
\* fields never raise the tier.
C27_TierByThresholds ==
  fn.name = "EvaluateJobComplexity" =>
    \A i \in 1..Len(fn.out) :
      LET tier == TierOf(fn.in.MachineType, GetCpuMillis(fn.in),
                         GetMemoryMib(fn.in),
                         GetMaxRunDurationSeconds(fn.in))
      IN /\ fn.out[i].Complexity = tier
         /\ fn.out[i].AssignedService = ServiceOf(tier)

\* a request with every field on its simple threshold was classified SIMPLE
C27_Witness ==
  /\ fn.name = "EvaluateJobComplexity"
  /\ fn.in.MachineType = ""
  /\ fn.in.ResourceOverride # Nil
  /\ GetCpuMillis(fn.in) = 500
  /\ GetMemoryMib(fn.in) = 512
  /\ GetMaxRunDurationSeconds(fn.in) = 600
  /\ Len(fn.out) > 0
  /\ fn.out[1].Complexity = ComplexitySimple

ByPrecedence(in, f) ==
  IF in.override # Nil /\ in.override[1][f] # 0 THEN in.override[1][f]
  ELSE IF in.machineType \in DOMAIN in.c.MachineTypeResources
  THEN in.c.MachineTypeResources[in.machineType][f]
  ELSE IF in.profileName \in DOMAIN in.c.ResourceProfiles
  THEN in.c.ResourceProfiles[in.profileName][f]
  ELSE in.c.DefaultResources[f]

ResourceFields == {"CPUMillis", "MemoryMiB", "MaxRunDurationSeconds"}

\* C29: each field of the triple the resource resolver returns is, on its
\* own, the override's value if non-zero, else the value of the machine
\* type's profile if the configuration has one, else the value of the named
\* preset if the name is recognised, else the default's value.
C29_FieldPrecedence ==
  (fn.name = "ResolveResources" /\ fn.out # Nil) =>
    \A f \in ResourceFields : fn.out[1][f] = ByPrecedence(fn.in, f)

\* a call whose three fields come from three different places: the override,
\* the machine-type profile, and (for a second kind of call) the preset
C29_Witness ==
  /\ fn.name = "ResolveResources"
  /\ fn.out # Nil
  /\ fn.in.machineType = "e2-medium"
  /\ fn.in.machineType \in DOMAIN fn.in.c.MachineTypeResources
  /\ fn.in.override # Nil
  /\ fn.out[1].CPUMillis = 500
  /\ fn.out[1].MemoryMiB = 2000
  /\ fn.in.override[1].MemoryMiB = 0

\* C30: with default resources that are all non-zero, no field of the triple
\* the resource resolver returns is zero, whatever the machine type, the
\* preset name and the override.
C30_NoZeroField ==
  (/\ fn.name = "ResolveResources"
   /\ fn.out # Nil
   /\ \A f \in ResourceFields : fn.in.c.DefaultResources[f] # 0) =>
    \A f \in ResourceFields : fn.out[1][f] # 0

\* the provider's constraint ^[a-z]([a-z0-9-]{0,62}[a-z0-9])?$
ValidProviderID(id) ==
  /\ Len(id) >= 1
  /\ Len(id) <= ProviderIDMax
  /\ id[1] \in LowerLetters
  /\ id[Len(id)] \in LowerLetters \cup Digits
  /\ \A i \in 1..Len(id) : id[i] \in LowerLetters \cup Digits \cup {"-"}

\* C31: for every name and every internal job id that SubmitJob accepts,
\* generateProviderJobID returns, without crashing, an id of at most 64
\* characters that starts with a lowercase letter, ends with a lowercase
\* letter or digit and holds only lowercase letters, digits and hyphens.
C31_ProviderIDValid ==
  (fn.name = "generateProviderJobID" /\ fn.out # Nil) =>
    /\ ~fn.out[1].panic
    /\ ValidProviderID(fn.out[1].id)

\* the lease renewal of the poller in slot s of worker w, as its store call
\* answers in this state
Renewal(w) == TryClaimOrRenewJobLease(row, w, LeaseTTL)

\* C32: when a poller's lease renewal returns owned=false, the poller exits
\* on that tick without calling the provider and without writing the job's
\* status or a transition record, and its entry is removed from the worker's
\* poller map.
C32_LostLeaseExits ==
  [][\A w \in Workers, s \in Slots :
       (PollRenew(w, s, TRUE) /\ ~Renewal(w).err /\ ~Renewal(w).owned)
         => /\ pol'[w][s] = FreePoller
            /\ pollers'[w] = 0
            /\ UNCHANGED <<row, log, prov>>]_vars

\* the registered poller of W2 is at its tick while W1, back from a stop,
\* holds the lease of the running job
C32_Witness ==
  /\ alive["W2"]
  /\ pollers["W2"] # 0
  /\ pol["W2"][pollers["W2"]].pc = "select"
  /\ row.present
  /\ row.status = JobStatusRunning
  /\ row.owner = "W1"
  /\ ~Renewal("W2").err
  /\ ~Renewal("W2").owned

\* C33: when the store call of a poller's lease renewal fails, the poller on
\* that tick neither queries the provider nor writes the status, leaves its
\* consecutive-failure counter as it is, stays registered, and is at its
\* next tick afterwards.
C33_StoreErrorSkipsTick ==
  [][\A w \in Workers, s \in Slots :
       (\E ok \in BOOLEAN :
          PollRenew(w, s, ok) /\ (~ok \/ Renewal(w).err))
         => /\ pol'[w][s] = pol[w][s]
            /\ pol'[w][s].pc = "select"
            /\ pollers'[w] = pollers[w]
            /\ UNCHANGED <<row, log, prov>>]_vars

\* the registered poller of the owner, one provider failure counted, is at
\* the tick whose lease call the store may fail
C33_Witness ==
  \E w \in Workers :
    /\ alive[w]
    /\ pollers[w] # 0
    /\ pol[w][pollers[w]].pc = "select"
    /\ pol[w][pollers[w]].fails = 1
    /\ row.owner = w
    /\ row.status = JobStatusRunning

\* C34: a poller's failure counter is the number of consecutive failed
\* get-status calls since the last one that succeeded: a failure adds one, a
\* success resets it to zero, no other step of the poller changes it; the
\* poller stops exactly when the counter reaches the maximum; a failed call
\* writes neither the status nor a transition record.
C34_ConsecutiveFailures ==
  [][\A w \in Workers, s \in Slots :
       /\ PollGetErr(w, s)
            => /\ UNCHANGED <<row, log>>
               /\ IF pol[w][s].fails + 1 = MaxFailedAttempts
                  THEN pol'[w][s] = FreePoller /\ pollers'[w] = 0
                  ELSE /\ pol'[w][s].fails = pol[w][s].fails + 1
                       /\ pol'[w][s].fails < MaxFailedAttempts
                       /\ pol'[w][s].pc = "select"
                       /\ pollers'[w] = pollers[w]
       /\ PollGet(w, s) => pol'[w][s].fails = 0
       /\ (/\ pol[w][s].pc \in {"select", "write"}
           /\ pol'[w][s].pc # "free")
            => pol'[w][s].fails = pol[w][s].fails]_vars

\* the provider has failed the poller's calls up to one short of the
\* maximum and the poller is at a further call
C34_Witness ==
  \E w \in Workers, s \in Slots :
    /\ alive[w]
    /\ pollers[w] = s
    /\ pol[w][s].pc = "renewed"
    /\ pol[w][s].fails = MaxFailedAttempts - 1

\* worker w, which stayed up, is the owner of the active job and has no
\* poller for it
GaveUp(w) ==
  /\ alive[w]
  /\ Running(w) = {}
  /\ row.present
  /\ ~isTerminalStatus(row.status)
  /\ row.owner = w

\* C35: after a poller has stopped at the maximum of consecutive provider
\* failures, its worker renews the lease of the job no more (so that the
\* lease expires and another worker's reconciler takes the job over).
C35_NoRenewalAfterGivingUp ==
  [][\A w \in Workers :
       (GaveUp(w) /\ reconcileActiveJobLeases(w, TRUE))
         => (row'.lease = row.lease /\ pollers'[w] = 0)]_vars

\* C36: a poller that gets a terminal status from the provider stops on that
\* tick; a poller started for a job whose persisted status is terminal
\* already exits on its first tick without writing; no poller keeps running
\* for a job whose persisted status is terminal.
C36_TerminalStopsPoller ==
  /\ [][\A w \in Workers, s \in Slots :
          /\ (\E status \in {JobStatusCompleted, JobStatusFailed,
                             JobStatusCancelled} : PollGetStatus(w, s, status))
               => pol'[w][s].pc \in {"write", "free"}
          /\ (pol[w][s].pc = "write" /\ isTerminalStatus(pol[w][s].cur)
                /\ pol'[w][s] # pol[w][s])
               => (pol'[w][s] = FreePoller /\ pollers'[w] = 0)
          /\ (/\ pol[w][s].pc = "select"
              /\ row.present
              /\ isTerminalStatus(row.status)
              /\ pol'[w][s] # pol[w][s])
               => (pol'[w][s] = FreePoller /\ pollers'[w] = 0
                   /\ UNCHANGED <<row, log>>)]_vars
  /\ (row.present /\ isTerminalStatus(row.status))
       ~> (\A w \in Workers : Running(w) = {})

\* SubmitJob has started a poller for a job the provider answered FAILED for
C36_Witness ==
  \E w \in Workers :
    /\ pollers[w] # 0
    /\ pol[w][pollers[w]].pc = "select"
    /\ pol[w][pollers[w]].cur = JobStatusFailed
    /\ row.status = JobStatusFailed
    /\ h = NoHandler

\* the poller in slot s of worker w ends a tick in which it had a changed
\* status to write
PollerWrote(w, s) ==
  /\ pol[w][s].pc = "write"
  /\ alive'[w]
  /\ pol'[w][s].pc # "write"

\* C37: every transition record appended by a poller or by CancelJob has the
\* to-status that the step persisted on the job and the from-status the job
\* had persisted before that write, and no record is appended for a status
\* write that failed or that left the persisted status as it was.
C37_RecordsMatchWrites ==
  [][/\ \A w \in Workers, s \in Slots :
          (PollerWrote(w, s) /\ log' # log)
            => /\ log' = log \cup {<<row.status, row'.status>>}
               /\ row'.status = pol[w][s].cur
               /\ row'.status # row.status
     /\ (h.kind = "cancel" /\ h.pc = "record" /\ log' # log)
          => /\ log' = log \cup {<<h.seen, JobStatusCancelled>>}
             /\ row.status = JobStatusCancelled]_vars

\* C38: after the job's row has been deleted, every poller of the job on
\* every worker exits in the end.
C38_PollersExitAfterDelete ==
  (~row.present) ~> (\A w \in Workers : Running(w) = {})

\* C39: when the provider call inside CancelJob or DeleteJob fails, the
\* handler returns an internal error and leaves the job's row, the
\* transition log and the worker's poller of the job as they are: the job
\* is neither marked CANCELLED nor deleted and its poller keeps running.
C39_ProviderFailureChangesNothing ==
  [][/\ (CancelProvider(FALSE) \/ DeleteProvider(FALSE))
          => /\ h'.kind = h.kind
             /\ h'.pc = "internal"
             /\ UNCHANGED <<row, log, prov, pollers, pol>>
     /\ (h.kind \in {"cancel", "delete"} /\ h.pc = "internal" /\ HandlerSteps)
          => /\ h' = NoHandler
             /\ UNCHANGED <<row, log, prov, pollers, pol>>]_vars

\* DeleteJob is returning the internal error for a running job that has its
\* row, its provider job and its registered poller
C39_Witness ==
  /\ h.kind = "delete"
  /\ h.pc = "internal"
  /\ row.present
  /\ row.status = JobStatusRunning
  /\ prov = JobStatusRunning
  /\ pollers[h.w] # 0
  /\ pol[h.w][pollers[h.w]].pc # "free"

\* C40: NewProvider never crashes, and returns an error for every provider
\* name it cannot build: for an unsupported name, and for a name that the
\* configuration validation accepts while its constructor has not been
\* registered in the process.
C40_NewProviderNeverCrashes ==
  (fn.name = "NewProvider" /\ fn.out # Nil) =>
    /\ fn.out[1].result # ProviderPanic
    /\ fn.in.config.Provider \notin {"gcp", "aws", "azure"}
         => fn.out[1].result = ProviderError
    /\ (fn.out[1].valid /\ fn.in.config.Provider \notin fn.in.registered)
         => fn.out[1].result = ProviderError

====
